---- MODULE Spec2Model ----
(***************************************************************************)
(* DocForge, src/src/docx/generator.ts: the Markdown structural parser     *)
(* (parseMarkdownContent), the inline formatting tokenizer                 *)
(* (DocxGenerator.parseInlineFormatting), the style resolver                *)
(* (DocxGenerator.mergeStyles), the unit conversions (mmToTwip,            *)
(* ptToHalfPoints), the document assembler                                 *)
(* (DocxGenerator.createDocumentFromParsed), generateFromMarkdown and      *)
(* generateFile.                                                           *)
(*                                                                         *)
(* A JavaScript string is a sequence of one-character strings.  The array  *)
(* index i of the source is kept 0-based: lines[i] is lines[i + 1] here.   *)
(***************************************************************************)
EXTENDS Integers, Sequences, FiniteSets, TLC

VARIABLES
  lines,             \* parseMarkdownContent: content.split('\n')
  i,                 \* parseMarkdownContent: the for-loop index (0-based)
  elements,          \* parseMarkdownContent: the ParsedElement[] being built
  currentList,       \* parseMarkdownContent: the open list accumulator or NoList
  currentParagraph,  \* parseMarkdownContent: the pending paragraph buffer
  codeContent,       \* parseMarkdownContent: the code text collected in a fence
  pc,                \* parseMarkdownContent: "scan", "code" (in a fence), "done"; "idle"
  srcs,              \* history: for each element, the 1-based lines it was built from
  listSrc,           \* history: the lines of the items of currentList
  paraSrc,           \* history: the lines appended to currentParagraph
  codeSrc,           \* history: the lines appended to codeContent
  text,              \* parseInlineFormatting: the argument
  ti,                \* parseInlineFormatting: the for-loop index i (0-based)
  runs,              \* parseInlineFormatting: the TextRun[] being built
  currentText,       \* parseInlineFormatting: the pending plain buffer
  isBold,            \* parseInlineFormatting: the bold toggle
  isItalic,          \* parseInlineFormatting: the italic toggle
  result,            \* parseInlineFormatting: the value returned
  tpc,               \* parseInlineFormatting: "scan" | "done" | "idle"
  overrides,         \* DocxGenerator: the constructor's argument, as passed
  held,              \* the object passed to the constructor, as the caller
                     \*   holds it now
  styleConfig,       \* DocxGenerator: this.styleConfig
  spc,               \* DocxGenerator: "new" | "built" | "idle"
  aliased,           \* DocxGenerator: the paths at which this.styleConfig holds
                     \*   the very object that the constructor's argument holds
  document,          \* createDocumentFromParsed: the value returned, or the throw
  mm,                \* mmToTwip: the argument, in hundredths of a millimetre
  twip,              \* mmToTwip: the value returned
  upc,               \* mmToTwip: "call" | "done" | "idle"
  requests,          \* generateFromMarkdown: for each call, its arguments, its
                     \*   position and its locals doc and buffer
  running,           \* the call whose synchronous section is executing, or 0
  files              \* the file system: for each output path, the buffer written

parserVars == <<lines, i, elements, currentList, currentParagraph, codeContent,
                pc, srcs, listSrc, paraSrc, codeSrc>>

inlineVars == <<text, ti, runs, currentText, isBold, isItalic, result, tpc>>

styleVars == <<overrides, held, styleConfig, spc, aliased, document>>

unitVars == <<mm, twip, upc>>

reqVars == <<requests, running, files>>

vars == <<parserVars, inlineVars, styleVars, unitVars, reqVars>>

----------------------------------------------------------------------------
(* Strings *)

NL == "\n"
CR == "\r"
TAB == "\t"

\* the white space of String.prototype.trim and of the regular expression \s
WhiteSpace == {" ", TAB, NL, CR}

\* what the regular expression . matches: anything but a line terminator
IsDot(c) == c \notin {NL, CR}

Digits == {"0", "1", "2", "3", "4", "5", "6", "7", "8", "9"}

\* the backtick character U+0060 (a string literal cannot hold it)
BT == "BT"

Fence == <<BT, BT, BT>>

RECURSIVE TrimStart(_)
TrimStart(s) ==
  IF s # <<>> /\ Head(s) \in WhiteSpace THEN TrimStart(Tail(s)) ELSE s

RECURSIVE TrimEnd(_)
TrimEnd(s) ==
  IF s # <<>> /\ s[Len(s)] \in WhiteSpace
  THEN TrimEnd(SubSeq(s, 1, Len(s) - 1))
  ELSE s

Trim(s) == TrimEnd(TrimStart(s))

StartsWith(s, p) == Len(s) >= Len(p) /\ SubSeq(s, 1, Len(p)) = p

\* the number of leading characters of s that are in the set cs
RECURSIVE LeadingCount(_, _)
LeadingCount(s, cs) ==
  IF s # <<>> /\ Head(s) \in cs THEN 1 + LeadingCount(Tail(s), cs) ELSE 0

Drop(s, n) == SubSeq(s, n + 1, Len(s))

\* the strings of ss joined end to end
RECURSIVE Flatten(_)
Flatten(ss) == IF ss = <<>> THEN <<>> ELSE Head(ss) \o Flatten(Tail(ss))

\* content.split('\n'): always at least one piece
RECURSIVE Split(_)
Split(s) ==
  IF \A k \in 1..Len(s) : s[k] # NL
  THEN <<s>>
  ELSE LET k == CHOOSE k \in 1..Len(s) :
                   s[k] = NL /\ \A j \in 1..(k - 1) : s[j] # NL
       IN  <<SubSeq(s, 1, k - 1)>> \o Split(Drop(s, k))

----------------------------------------------------------------------------
(* The regular expressions of parseMarkdownContent *)

NoMatch == [ok |-> FALSE, g |-> <<>>]

\* the common tail  \s+(.+)$  of the three patterns, matched against rest;
\* g is the capture group (.+).  \s+ is greedy and gives back its last
\* character when nothing else is left for (.+).
MatchSpaceThenRest(rest) ==
  LET k == LeadingCount(rest, WhiteSpace)
      tail == Drop(rest, k)
  IN  IF k = 0 THEN NoMatch
      ELSE IF tail # <<>>
      THEN IF \A n \in 1..Len(tail) : IsDot(tail[n])
           THEN [ok |-> TRUE, g |-> tail]
           ELSE NoMatch
      ELSE IF k >= 2 /\ IsDot(rest[k])
      THEN [ok |-> TRUE, g |-> <<rest[k]>>]
      ELSE NoMatch

\* line.match(/^(#{1,6})\s+(.+)$/): level is headingMatch[1].length
HeadingMatch(line) ==
  LET h == LeadingCount(line, {"#"})
      m == MatchSpaceThenRest(Drop(line, h))
  IN  IF h >= 1 /\ h <= 6 /\ m.ok
      THEN [ok |-> TRUE, level |-> h, g |-> m.g]
      ELSE [ok |-> FALSE, level |-> 0, g |-> <<>>]

\* line.match(/^[\-\*]\s+(.+)$/)
ListMatch(line) ==
  IF line # <<>> /\ Head(line) \in {"-", "*"}
  THEN MatchSpaceThenRest(Tail(line))
  ELSE NoMatch

\* line.match(/^\d+\.\s+(.+)$/)
NumListMatch(line) ==
  LET d == LeadingCount(line, Digits)
  IN  IF d >= 1 /\ Len(line) > d /\ line[d + 1] = "."
      THEN MatchSpaceThenRest(Drop(line, d + 1))
      ELSE NoMatch

----------------------------------------------------------------------------
(* Inputs of the parser *)

MaxLines == 4

\* the kinds of line the parser tells apart: empty, blank, heading, bullet
\* items with either marker, numbered item, fence with an info string, and a
\* paragraph line with white space around it
L_empty   == <<>>
L_space   == <<" ">>
L_heading == <<"#", " ", "a">>
L_dash    == <<"-", " ", "b">>
L_star    == <<"*", " ", "c">>
L_number  == <<"1", ".", " ", "d">>
L_fence   == <<BT, BT, BT, "j">>
L_text    == <<" ", "e", " ">>

LineSet == {L_empty, L_space, L_heading, L_dash, L_star, L_number, L_fence,
            L_text}

\* lines.join('\n')
RECURSIVE JoinLines(_)
JoinLines(ls) ==
  IF Len(ls) = 0 THEN <<>>
  ELSE IF Len(ls) = 1 THEN ls[1]
  ELSE ls[1] \o <<NL>> \o JoinLines(Tail(ls))

\* the Markdown texts handed to the parser
Contents ==
  {JoinLines(ls) : ls \in UNION {[1..n -> LineSet] : n \in 1..MaxLines}}

----------------------------------------------------------------------------
(* parseMarkdownContent *)

NoList == [type |-> "null", items |-> <<>>]

Element(t, c) == [type |-> t, content |-> c]

\* if (currentParagraph) elements.push({type: 'paragraph', ...trim()})
FlushParagraph(els) ==
  IF currentParagraph # <<>>
  THEN Append(els, Element("paragraph", Trim(currentParagraph)))
  ELSE els

FlushParagraphSrc(ss) ==
  IF currentParagraph # <<>> THEN Append(ss, paraSrc) ELSE ss

\* if (currentList) elements.push({type: 'list', content: {...currentList}})
FlushList(els) ==
  IF currentList # NoList
  THEN Append(els, Element("list", currentList))
  ELSE els

FlushListSrc(ss) ==
  IF currentList # NoList THEN Append(ss, listSrc) ELSE ss

Line == lines[i + 1]

\* the tokenizer and the generator take no part in a run of the parser
InlineIdle ==
  /\ text = <<>>
  /\ ti = 0
  /\ runs = <<>>
  /\ currentText = <<>>
  /\ isBold = FALSE
  /\ isItalic = FALSE
  /\ result = <<>>
  /\ tpc = "idle"

StyleIdle ==
  /\ overrides = <<>>
  /\ held = <<>>
  /\ styleConfig = <<>>
  /\ spc = "idle"
  /\ aliased = {}
  /\ document = <<>>

UnitIdle ==
  /\ mm = 0
  /\ twip = 0
  /\ upc = "idle"

ReqIdle ==
  /\ requests = <<>>
  /\ running = 0
  /\ files = <<>>

ParserIdle ==
  /\ lines = <<>>
  /\ i = 0
  /\ elements = <<>>
  /\ currentList = NoList
  /\ currentParagraph = <<>>
  /\ codeContent = <<>>
  /\ pc = "idle"
  /\ srcs = <<>>
  /\ listSrc = <<>>
  /\ paraSrc = <<>>
  /\ codeSrc = <<>>

Init ==
  /\ lines \in {Split(c) : c \in Contents}
  /\ i = 0
  /\ elements = <<>>
  /\ currentList = NoList
  /\ currentParagraph = <<>>
  /\ codeContent = <<>>
  /\ pc = "scan"
  /\ srcs = <<>>
  /\ listSrc = <<>>
  /\ paraSrc = <<>>
  /\ codeSrc = <<>>
  /\ InlineIdle
  /\ StyleIdle
  /\ UnitIdle
  /\ ReqIdle

\* if (!line.trim()) { flush paragraph; flush list; continue }
BlankLine ==
  /\ pc = "scan"
  /\ i < Len(lines)
  /\ Trim(Line) = <<>>
  /\ elements' = FlushList(FlushParagraph(elements))
  /\ srcs' = FlushListSrc(FlushParagraphSrc(srcs))
  /\ currentParagraph' = <<>>
  /\ paraSrc' = <<>>
  /\ currentList' = NoList
  /\ listSrc' = <<>>
  /\ i' = i + 1
  /\ UNCHANGED <<lines, codeContent, codeSrc, pc>>
  /\ UNCHANGED <<inlineVars, styleVars, unitVars, reqVars>>

\* if (headingMatch) { flush paragraph; flush list; push heading; continue }
HeadingLine ==
  /\ pc = "scan"
  /\ i < Len(lines)
  /\ Trim(Line) # <<>>
  /\ HeadingMatch(Line).ok
  /\ LET m == HeadingMatch(Line)
     IN  /\ elements' = Append(FlushList(FlushParagraph(elements)),
                               Element("heading",
                                       [level |-> m.level, text |-> Trim(m.g)]))
         /\ srcs' = Append(FlushListSrc(FlushParagraphSrc(srcs)), <<i + 1>>)
  /\ currentParagraph' = <<>>
  /\ paraSrc' = <<>>
  /\ currentList' = NoList
  /\ listSrc' = <<>>
  /\ i' = i + 1
  /\ UNCHANGED <<lines, codeContent, codeSrc, pc>>
  /\ UNCHANGED <<inlineVars, styleVars, unitVars, reqVars>>

\* mutant of ListItemLine: an open list takes the item whatever its kind
ListItemLineAnyKind ==
  /\ pc = "scan"
  /\ i < Len(lines)
  /\ Trim(Line) # <<>>
  /\ ~HeadingMatch(Line).ok
  /\ ListMatch(Line).ok \/ NumListMatch(Line).ok
  /\ LET listMatch == ListMatch(Line)
         itemText == Trim(IF listMatch.ok THEN listMatch.g
                                          ELSE NumListMatch(Line).g)
         listType == IF listMatch.ok THEN "bullet" ELSE "number"
     IN  IF currentList = NoList
         THEN /\ currentList' = [type |-> listType, items |-> <<itemText>>]
              /\ listSrc' = <<i + 1>>
         ELSE /\ currentList' =
                   [currentList EXCEPT !.items = Append(@, itemText)]
              /\ listSrc' = Append(listSrc, i + 1)
  /\ elements' = FlushParagraph(elements)
  /\ srcs' = FlushParagraphSrc(srcs)
  /\ currentParagraph' = <<>>
  /\ paraSrc' = <<>>
  /\ i' = i + 1
  /\ UNCHANGED <<lines, codeContent, codeSrc, pc>>
  /\ UNCHANGED <<inlineVars, styleVars, unitVars, reqVars>>

\* if (listMatch || numListMatch) { flush paragraph; open or extend; continue }
ListItemLine ==
  /\ pc = "scan"
  /\ i < Len(lines)
  /\ Trim(Line) # <<>>
  /\ ~HeadingMatch(Line).ok
  /\ ListMatch(Line).ok \/ NumListMatch(Line).ok
  /\ LET listMatch == ListMatch(Line)
         itemText == Trim(IF listMatch.ok THEN listMatch.g
                                          ELSE NumListMatch(Line).g)
         listType == IF listMatch.ok THEN "bullet" ELSE "number"
     IN  IF currentList = NoList \/ currentList.type # listType
         THEN /\ elements' = FlushList(FlushParagraph(elements))
              /\ srcs' = FlushListSrc(FlushParagraphSrc(srcs))
              /\ currentList' = [type |-> listType, items |-> <<itemText>>]
              /\ listSrc' = <<i + 1>>
         ELSE /\ elements' = FlushParagraph(elements)
              /\ srcs' = FlushParagraphSrc(srcs)
              /\ currentList' =
                   [currentList EXCEPT !.items = Append(@, itemText)]
              /\ listSrc' = Append(listSrc, i + 1)
  /\ currentParagraph' = <<>>
  /\ paraSrc' = <<>>
  /\ i' = i + 1
  /\ UNCHANGED <<lines, codeContent, codeSrc, pc>>
  /\ UNCHANGED <<inlineVars, styleVars, unitVars, reqVars>>

\* mutant of FenceOpen: the open list is not flushed before the code block
FenceOpenKeepsList ==
  /\ pc = "scan"
  /\ i < Len(lines)
  /\ Trim(Line) # <<>>
  /\ ~HeadingMatch(Line).ok
  /\ ~(ListMatch(Line).ok \/ NumListMatch(Line).ok)
  /\ StartsWith(Line, Fence)
  /\ elements' = FlushParagraph(elements)
  /\ srcs' = FlushParagraphSrc(srcs)
  /\ currentParagraph' = <<>>
  /\ paraSrc' = <<>>
  /\ codeContent' = <<>>
  /\ codeSrc' = <<>>
  /\ i' = i + 1
  /\ pc' = "code"
  /\ UNCHANGED <<lines, currentList, listSrc>>
  /\ UNCHANGED <<inlineVars, styleVars, unitVars, reqVars>>

\* if (line.startsWith(Fence)) { flush paragraph; flush list;
\*                               codeContent = ''; i++; ...
FenceOpen ==
  /\ pc = "scan"
  /\ i < Len(lines)
  /\ Trim(Line) # <<>>
  /\ ~HeadingMatch(Line).ok
  /\ ~(ListMatch(Line).ok \/ NumListMatch(Line).ok)
  /\ StartsWith(Line, Fence)
  /\ elements' = FlushList(FlushParagraph(elements))
  /\ srcs' = FlushListSrc(FlushParagraphSrc(srcs))
  /\ currentParagraph' = <<>>
  /\ paraSrc' = <<>>
  /\ currentList' = NoList
  /\ listSrc' = <<>>
  /\ codeContent' = <<>>
  /\ codeSrc' = <<>>
  /\ i' = i + 1
  /\ pc' = "code"
  /\ UNCHANGED lines
  /\ UNCHANGED <<inlineVars, styleVars, unitVars, reqVars>>

\* mutant of CodeLine: the inner loop forgets i++
CodeLineNoAdvance ==
  /\ pc = "code"
  /\ i < Len(lines)
  /\ ~StartsWith(Line, Fence)
  /\ codeContent' = codeContent \o Line \o <<NL>>
  /\ codeSrc' = Append(codeSrc, i + 1)
  /\ UNCHANGED <<lines, i, elements, srcs, currentList, listSrc,
                 currentParagraph, paraSrc, pc>>
  /\ UNCHANGED <<inlineVars, styleVars, unitVars, reqVars>>

\* while (i < lines.length && !lines[i].startsWith(Fence))
\*   { codeContent += lines[i] + '\n'; i++ }
CodeLine ==
  /\ pc = "code"
  /\ i < Len(lines)
  /\ ~StartsWith(Line, Fence)
  /\ codeContent' = codeContent \o Line \o <<NL>>
  /\ codeSrc' = Append(codeSrc, i + 1)
  /\ i' = i + 1
  /\ UNCHANGED <<lines, elements, srcs, currentList, listSrc,
                 currentParagraph, paraSrc, pc>>
  /\ UNCHANGED <<inlineVars, styleVars, unitVars, reqVars>>

\* ... elements.push({type: 'code', content: codeContent.trim()}); continue }
FenceClose ==
  /\ pc = "code"
  /\ ~(i < Len(lines) /\ ~StartsWith(Line, Fence))
  /\ elements' = Append(elements, Element("code", Trim(codeContent)))
  /\ srcs' = Append(srcs, codeSrc)
  /\ i' = i + 1
  /\ pc' = "scan"
  /\ UNCHANGED <<lines, currentList, listSrc, currentParagraph, paraSrc,
                 codeContent, codeSrc>>
  /\ UNCHANGED <<inlineVars, styleVars, unitVars, reqVars>>

\* mutant of ParagraphLine: = instead of +=, the buffer is overwritten
ParagraphLineOverwrites ==
  /\ pc = "scan"
  /\ i < Len(lines)
  /\ Trim(Line) # <<>>
  /\ ~HeadingMatch(Line).ok
  /\ ~(ListMatch(Line).ok \/ NumListMatch(Line).ok)
  /\ ~StartsWith(Line, Fence)
  /\ currentParagraph' = Line \o <<NL>>
  /\ paraSrc' = <<i + 1>>
  /\ i' = i + 1
  /\ UNCHANGED <<lines, elements, srcs, currentList, listSrc,
                 codeContent, codeSrc, pc>>
  /\ UNCHANGED <<inlineVars, styleVars, unitVars, reqVars>>

\* currentParagraph += line + '\n'
ParagraphLine ==
  /\ pc = "scan"
  /\ i < Len(lines)
  /\ Trim(Line) # <<>>
  /\ ~HeadingMatch(Line).ok
  /\ ~(ListMatch(Line).ok \/ NumListMatch(Line).ok)
  /\ ~StartsWith(Line, Fence)
  /\ currentParagraph' = currentParagraph \o Line \o <<NL>>
  /\ paraSrc' = Append(paraSrc, i + 1)
  /\ i' = i + 1
  /\ UNCHANGED <<lines, elements, srcs, currentList, listSrc,
                 codeContent, codeSrc, pc>>
  /\ UNCHANGED <<inlineVars, styleVars, unitVars, reqVars>>

\* after the loop: flush paragraph; flush list; return elements
EndOfInput ==
  /\ pc = "scan"
  /\ ~(i < Len(lines))
  /\ elements' = FlushList(FlushParagraph(elements))
  /\ srcs' = FlushListSrc(FlushParagraphSrc(srcs))
  /\ pc' = "done"
  /\ UNCHANGED <<lines, i, currentList, listSrc, currentParagraph, paraSrc,
                 codeContent, codeSrc>>
  /\ UNCHANGED <<inlineVars, styleVars, unitVars, reqVars>>

Next ==
  \/ BlankLine
  \/ HeadingLine
  \/ ListItemLine
  \/ FenceOpen
  \/ CodeLine
  \/ FenceClose
  \/ ParagraphLine
  \/ EndOfInput

Spec == Init /\ [][Next]_vars

----------------------------------------------------------------------------
(* DocxGenerator.parseInlineFormatting *)

MaxTextLen == 7

\* the characters of the texts handed to the tokenizer
TextAlphabet == {"a", "b", "*", BT}

Texts == UNION {[1..n -> TextAlphabet] : n \in 0..MaxTextLen}

\* text.slice(from, to) with 0-based bounds, to clipped to the length
Slice(s, from, to) ==
  SubSeq(s, from + 1, IF to > Len(s) THEN Len(s) ELSE to)

\* text.indexOf(p, from): the first 0-based index >= from where p occurs, or -1
IndexOf(s, p, from) ==
  LET hits == {k \in from..(Len(s) - Len(p)) : Slice(s, k, k + Len(p)) = p}
  IN  IF hits = {} THEN -1
      ELSE CHOOSE k \in hits : \A j \in hits : k <= j

\* Math.round(x) for x = n / d with d > 0: the integer nearest to x, the upper
\* one at a tie
Round(n, d) == (2 * n + d) \div (2 * d)

\* mmToTwip(mm), mm in hundredths of a millimetre: Math.round(mm * 56.7)
mmToTwip(h) == Round(h * 567, 1000)

\* ptToHalfPoints(pt), pt in hundredths of a point: Math.round(pt * 2)
ptToHalfPoints(h) == Round(h * 2, 100)

\* new TextRun({text, bold, italics})
PlainRun(t, b, it) ==
  [text |-> t, bold |-> b, italics |-> it, font |-> "", size |-> 0,
   shading |-> FALSE]

\* new TextRun({text, font: 'Consolas', size: ptToHalfPoints(9)[, shading]})
CodeRun(t, shaded) ==
  [text |-> t, bold |-> FALSE, italics |-> FALSE, font |-> "Consolas",
   size |-> ptToHalfPoints(900), shading |-> shaded]

\* if (currentText) runs.push(new TextRun({currentText, isBold, isItalic}))
FlushText(rs) ==
  IF currentText # <<>>
  THEN Append(rs, PlainRun(currentText, isBold, isItalic))
  ELSE rs

Char == text[ti + 1]

InlineInit ==
  /\ text \in Texts
  /\ ti = 0
  /\ runs = <<>>
  /\ currentText = <<>>
  /\ isBold = FALSE
  /\ isItalic = FALSE
  /\ result = <<>>
  /\ tpc = "scan"
  /\ lines = <<>>
  /\ i = 0
  /\ elements = <<>>
  /\ currentList = NoList
  /\ currentParagraph = <<>>
  /\ codeContent = <<>>
  /\ pc = "idle"
  /\ srcs = <<>>
  /\ listSrc = <<>>
  /\ paraSrc = <<>>
  /\ codeSrc = <<>>
  /\ StyleIdle
  /\ UnitIdle
  /\ ReqIdle

IsBoldMarker ==
  Char = "*" /\ ti + 1 < Len(text) /\ text[ti + 2] = "*"

IsTripleFence ==
  Char = BT /\ ti + 2 < Len(text) /\ Slice(text, ti, ti + 3) = Fence

\* mutant of BoldMarker: the second asterisk of the marker is not skipped
BoldMarkerNoSkip ==
  /\ tpc = "scan"
  /\ ti < Len(text)
  /\ IsBoldMarker
  /\ runs' = FlushText(runs)
  /\ currentText' = <<>>
  /\ isBold' = ~isBold
  /\ ti' = ti + 1
  /\ UNCHANGED <<text, isItalic, result, tpc>>
  /\ UNCHANGED <<parserVars, styleVars, unitVars, reqVars>>

\* mutant of BoldMarker: the bold state is flipped before the flush
BoldMarkerFlipsFirst ==
  /\ tpc = "scan"
  /\ ti < Len(text)
  /\ IsBoldMarker
  /\ runs' = IF currentText # <<>>
             THEN Append(runs, PlainRun(currentText, ~isBold, isItalic))
             ELSE runs
  /\ currentText' = <<>>
  /\ isBold' = ~isBold
  /\ ti' = ti + 2
  /\ UNCHANGED <<text, isItalic, result, tpc>>
  /\ UNCHANGED <<parserVars, styleVars, unitVars, reqVars>>

\* text[i] === '*' && text[i + 1] === '*': flush, flip bold, i++
BoldMarker ==
  /\ tpc = "scan"
  /\ ti < Len(text)
  /\ IsBoldMarker
  /\ runs' = FlushText(runs)
  /\ currentText' = <<>>
  /\ isBold' = ~isBold
  /\ ti' = ti + 2
  /\ UNCHANGED <<text, isItalic, result, tpc>>
  /\ UNCHANGED <<parserVars, styleVars, unitVars, reqVars>>

\* text[i] === '*': flush, flip italic
ItalicMarker ==
  /\ tpc = "scan"
  /\ ti < Len(text)
  /\ ~IsBoldMarker
  /\ Char = "*"
  /\ runs' = FlushText(runs)
  /\ currentText' = <<>>
  /\ isItalic' = ~isItalic
  /\ ti' = ti + 1
  /\ UNCHANGED <<text, isBold, result, tpc>>
  /\ UNCHANGED <<parserVars, styleVars, unitVars, reqVars>>

\* mutant of TripleCode: the index is not moved past the span
TripleCodeStays ==
  /\ tpc = "scan"
  /\ ti < Len(text)
  /\ Char # "*"
  /\ IsTripleFence
  /\ LET found == IndexOf(text, Fence, ti + 3)
         codeEnd == IF found = -1 THEN Len(text) ELSE found
         codeText == Slice(text, ti + 3, codeEnd)
     IN  /\ runs' = Append(runs, CodeRun(codeText, FALSE))
         /\ ti' = ti
  /\ UNCHANGED <<text, currentText, isBold, isItalic, result, tpc>>
  /\ UNCHANGED <<parserVars, styleVars, unitVars, reqVars>>

\* a triple-backtick span: one code run up to the next triple backtick
TripleCode ==
  /\ tpc = "scan"
  /\ ti < Len(text)
  /\ Char # "*"
  /\ IsTripleFence
  /\ LET found == IndexOf(text, Fence, ti + 3)
         codeEnd == IF found = -1 THEN Len(text) ELSE found
         codeText == Slice(text, ti + 3, codeEnd)
     IN  /\ runs' = Append(runs, CodeRun(codeText, FALSE))
         /\ ti' = codeEnd + 2 + 1
  /\ UNCHANGED <<text, currentText, isBold, isItalic, result, tpc>>
  /\ UNCHANGED <<parserVars, styleVars, unitVars, reqVars>>

\* mutant of InlineCode: the code run takes the toggles and bold is switched
\* off after the span
InlineCodeTouchesBold ==
  /\ tpc = "scan"
  /\ ti < Len(text)
  /\ Char # "*"
  /\ ~IsTripleFence
  /\ Char = BT
  /\ LET found == IndexOf(text, <<BT>>, ti + 1)
         codeEnd == IF found = -1 THEN Len(text) ELSE found
         codeText == Slice(text, ti + 1, codeEnd)
     IN  /\ runs' = Append(runs, [CodeRun(codeText, TRUE) EXCEPT
                                    !.bold = isBold, !.italics = isItalic])
         /\ ti' = codeEnd + 1
  /\ isBold' = FALSE
  /\ UNCHANGED <<text, currentText, isItalic, result, tpc>>
  /\ UNCHANGED <<parserVars, styleVars, unitVars, reqVars>>

\* a single backtick: one shaded code run up to the next backtick
InlineCode ==
  /\ tpc = "scan"
  /\ ti < Len(text)
  /\ Char # "*"
  /\ ~IsTripleFence
  /\ Char = BT
  /\ LET found == IndexOf(text, <<BT>>, ti + 1)
         codeEnd == IF found = -1 THEN Len(text) ELSE found
         codeText == Slice(text, ti + 1, codeEnd)
     IN  /\ runs' = Append(runs, CodeRun(codeText, TRUE))
         /\ ti' = codeEnd + 1
  /\ UNCHANGED <<text, currentText, isBold, isItalic, result, tpc>>
  /\ UNCHANGED <<parserVars, styleVars, unitVars, reqVars>>

\* currentText += text[i]
PlainChar ==
  /\ tpc = "scan"
  /\ ti < Len(text)
  /\ Char \notin {"*", BT}
  /\ currentText' = Append(currentText, Char)
  /\ ti' = ti + 1
  /\ UNCHANGED <<text, runs, isBold, isItalic, result, tpc>>
  /\ UNCHANGED <<parserVars, styleVars, unitVars, reqVars>>

\* after the loop: flush; return runs.length > 0 ? runs : [new TextRun({text})]
InlineReturn ==
  /\ tpc = "scan"
  /\ ~(ti < Len(text))
  /\ runs' = FlushText(runs)
  /\ result' = IF Len(runs') > 0 THEN runs'
               ELSE <<PlainRun(text, FALSE, FALSE)>>
  /\ tpc' = "done"
  /\ UNCHANGED <<text, ti, currentText, isBold, isItalic>>
  /\ UNCHANGED <<parserVars, styleVars, unitVars, reqVars>>

InlineNext ==
  \/ BoldMarker
  \/ ItalicMarker
  \/ TripleCode
  \/ InlineCode
  \/ PlainChar
  \/ InlineReturn

InlineSpec == InlineInit /\ [][InlineNext]_vars

----------------------------------------------------------------------------
(* mmToTwip, called on its own.  Lengths are held in hundredths of a        *)
(* millimetre, so that 56.7 is the exact ratio 567 / 1000 per hundredth.    *)

\* the largest length converted: 210 mm, the width of an A4 page
MaxMm == 21000

MmInputs == (0 - MaxMm)..MaxMm

UnitInit ==
  /\ mm \in MmInputs
  /\ twip = 0
  /\ upc = "call"
  /\ ParserIdle
  /\ InlineIdle
  /\ StyleIdle
  /\ ReqIdle

\* mutant of Convert: Math.floor in place of Math.round
ConvertTruncates ==
  /\ upc = "call"
  /\ twip' = (mm * 567) \div 1000
  /\ upc' = "done"
  /\ UNCHANGED mm
  /\ UNCHANGED <<parserVars, inlineVars, styleVars, reqVars>>

\* mutant of Convert: the ratio 56 in place of 56.7
ConvertWholeRatio ==
  /\ upc = "call"
  /\ twip' = Round(mm * 560, 1000)
  /\ upc' = "done"
  /\ UNCHANGED mm
  /\ UNCHANGED <<parserVars, inlineVars, styleVars, reqVars>>

\* return Math.round(mm * 56.7)
Convert ==
  /\ upc = "call"
  /\ twip' = mmToTwip(mm)
  /\ upc' = "done"
  /\ UNCHANGED mm
  /\ UNCHANGED <<parserVars, inlineVars, styleVars, reqVars>>

UnitNext == Convert

UnitSpec == UnitInit /\ [][UnitNext]_vars

----------------------------------------------------------------------------
(* JavaScript values of the style sheet: a value is a record tagged t.      *)
(* An object holds f, a function from its own property names to values; a   *)
(* property that is absent is not in DOMAIN f, a property set to undefined  *)
(* is in DOMAIN f with the value Undefined.                                 *)

Undefined == [t |-> "undefined"]
Null == [t |-> "null"]
Str(v) == [t |-> "string", v |-> v]
\* a number, held as its literal
Num(v) == [t |-> "number", v |-> v]
Bool(v) == [t |-> "boolean", v |-> v]
Arr(e) == [t |-> "array", e |-> e]
Obj(f) == [t |-> "object", f |-> f]

EmptyProps == [k \in {} |-> Undefined]

\* the own properties that  ...v  copies: none for undefined and null
Spread(v) == IF v.t = "object" THEN v.f ELSE EmptyProps

\* { ...a, ...b } on property maps: the later one wins
Assign(a, b) ==
  [k \in DOMAIN a \cup DOMAIN b |-> IF k \in DOMAIN b THEN b[k] ELSE a[k]]

\* v?.k
Get(v, k) ==
  IF v.t = "object" /\ k \in DOMAIN v.f THEN v.f[k] ELSE Undefined

\* v?.p1?.p2...
RECURSIVE GetPath(_, _)
GetPath(v, path) ==
  IF path = <<>> THEN v ELSE GetPath(Get(v, Head(path)), Tail(path))

\* the truthiness that || tests
Truthy(v) ==
  CASE v.t \in {"undefined", "null"} -> FALSE
    [] v.t = "string" -> v.v # ""
    [] v.t = "number" -> v.v # "0"
    [] v.t = "boolean" -> v.v
    [] OTHER -> TRUE

HeadingStyle(level, styleId, name, basedOn) ==
  Obj([level |-> Num(level), styleId |-> Str(styleId), name |-> Str(name),
       basedOn |-> Str(basedOn), next |-> Str("Normal"),
       quickFormat |-> Bool(TRUE)])

\* const defaultConfig: StyleConfig = { ... }   ("SimSun" is the font 宋体)
defaultConfig ==
  Obj([version |-> Str("v0.1"),
       page |-> Obj([size |-> Obj([width |-> Num("210"),
                                   height |-> Num("297")]),
                     margins |-> Obj([top |-> Num("25.4"),
                                      right |-> Num("31.7"),
                                      bottom |-> Num("25.4"),
                                      left |-> Num("31.7")]),
                     orientation |-> Str("portrait")]),
       font |-> Obj([eastAsia |-> Str("SimSun"),
                     ascii |-> Str("Calibri"),
                     size |-> Obj([heading |-> Num("15.75"),
                                   body |-> Num("10.5"),
                                   caption |-> Num("9")])]),
       paragraph |-> Obj([spacing |-> Obj([line |-> Num("360"),
                                           before |-> Num("0"),
                                           after |-> Num("0")]),
                          indent |-> Obj([firstLine |-> Num("2")])]),
       headingStyles |-> Arr(<<HeadingStyle("1", "Heading1", "Heading 1", "Normal"),
                               HeadingStyle("2", "Heading2", "Heading 2", "Heading1"),
                               HeadingStyle("3", "Heading3", "Heading 3", "Heading2")>>),
       listStyles |-> Arr(<<>>),
       styles |-> Obj(EmptyProps)])

\* mutant of OrDefault: an empty list counts as missing
OrDefaultNonEmpty(ov, k) ==
  IF Truthy(Get(ov, k)) /\ ~(Get(ov, k).t = "array" /\ Get(ov, k).e = <<>>)
  THEN Get(ov, k)
  ELSE Get(defaultConfig, k)

\* overrides?.k || defaultConfig.k
OrDefault(ov, k) ==
  IF Truthy(Get(ov, k)) THEN Get(ov, k) ELSE Get(defaultConfig, k)

\* mutant of GroupMerge: the defaults of the group are not spread
GroupMergeNoDefaults(ov, k) ==
  Obj(Spread(Get(ov, k)))

\* mutant of GroupMerge: a group the override supplies replaces the default
GroupMergeReplaces(ov, k) ==
  IF Get(ov, k).t = "object" THEN Get(ov, k) ELSE Get(defaultConfig, k)

\* { ...defaultConfig.k, ...overrides?.k }
GroupMerge(ov, k) ==
  Obj(Assign(Spread(Get(defaultConfig, k)), Spread(Get(ov, k))))

\* the keys of StyleConfig
KnownKeys ==
  {"version", "page", "font", "paragraph", "headingStyles", "listStyles",
   "styles"}

\* mutant of mergeStyles: an override with a key that StyleConfig does not
\* have is rejected as a whole and the defaults are used
mergeStylesRejectsUnknown(ov) ==
  IF DOMAIN Spread(ov) \subseteq KnownKeys
  THEN Obj(Assign(Assign(Spread(defaultConfig), Spread(ov)),
                  [page |-> GroupMerge(ov, "page"),
                   font |-> GroupMerge(ov, "font"),
                   paragraph |-> GroupMerge(ov, "paragraph"),
                   headingStyles |-> OrDefault(ov, "headingStyles"),
                   listStyles |-> OrDefault(ov, "listStyles"),
                   styles |-> GroupMerge(ov, "styles")]))
  ELSE defaultConfig

\* DocxGenerator.mergeStyles(overrides)
mergeStyles(ov) ==
  Obj(Assign(Assign(Spread(defaultConfig), Spread(ov)),
             [page |-> GroupMerge(ov, "page"),
              font |-> GroupMerge(ov, "font"),
              paragraph |-> GroupMerge(ov, "paragraph"),
              headingStyles |-> OrDefault(ov, "headingStyles"),
              listStyles |-> OrDefault(ov, "listStyles"),
              styles |-> GroupMerge(ov, "styles")]))

----------------------------------------------------------------------------
(* The overrides handed to the constructor *)

\* marks a property the override does not have
Absent == [t |-> "absent"]

Props1(k, v) == [x \in {k} |-> v]

VersionOpts == {Absent, Str("v0.2"), Undefined}

PageOpts ==
  {Absent,
   Obj(EmptyProps),
   Obj(Props1("orientation", Str("landscape"))),
   Obj(Props1("size", Obj(Props1("width", Num("148"))))),
   Obj(Props1("size", Obj([width |-> Num("148"), height |-> Num("210")]))),
   Obj(Props1("margins", Undefined))}

FontOpts ==
  {Absent,
   Obj(Props1("eastAsia", Str("KaiTi"))),
   Obj(Props1("ascii", Str("Arial"))),
   Obj(Props1("size", Obj(Props1("body", Num("12"))))),
   Obj(Props1("eastAsia", Undefined))}

ParagraphOpts ==
  {Absent,
   Obj(Props1("spacing", Obj(Props1("line", Num("480"))))),
   Obj(Props1("indent", Obj(Props1("firstLine", Num("0")))))}

HeadingStylesOpts ==
  {Absent, Null, Arr(<<>>),
   Arr(<<HeadingStyle("1", "Heading1", "Chapter", "Normal")>>)}

ListStylesOpts ==
  {Absent, Arr(<<>>),
   Arr(<<Obj([level |-> Num("0"), format |-> Str("bullet"),
              text |-> Str("-")])>>)}

StylesOpts ==
  {Absent, Obj(EmptyProps),
   Obj(Props1("Quote", Obj(Props1("alignment", Str("center")))))}

\* a key that StyleConfig does not have
UnknownOpts == {Absent, Str("dark")}

OverrideKeys ==
  <<"version", "page", "font", "paragraph", "headingStyles", "listStyles",
    "styles", "theme">>

\* the object whose properties are the chosen options that are not Absent
ObjectOf(choice) ==
  LET present == {n \in 1..Len(OverrideKeys) : choice[n] # Absent}
      keyAt(k) == CHOOSE n \in present : OverrideKeys[n] = k
  IN  Obj([k \in {OverrideKeys[n] : n \in present} |-> choice[keyAt(k)]])

\* new DocxGenerator() and new DocxGenerator(partial)
Overrides ==
  {Undefined} \cup
  {ObjectOf(<<v, pg, fo, pa, hs, ls, st, un>>) :
     v \in VersionOpts, pg \in PageOpts, fo \in FontOpts, pa \in ParagraphOpts,
     hs \in HeadingStylesOpts, ls \in ListStylesOpts, st \in StylesOpts,
     un \in UnknownOpts}

----------------------------------------------------------------------------
(* parseInlineFormatting as a function of its argument: the loop from index *)
(* k (0-based) with the runs rs, the buffer cur and the toggles b and it    *)

RECURSIVE ScanFrom(_, _, _, _, _, _)
ScanFrom(t, k, rs, cur, b, it) ==
  LET flushed == IF cur # <<>> THEN Append(rs, PlainRun(cur, b, it)) ELSE rs
  IN  IF ~(k < Len(t)) THEN flushed
      ELSE IF t[k + 1] = "*" /\ k + 1 < Len(t) /\ t[k + 2] = "*"
        THEN ScanFrom(t, k + 2, flushed, <<>>, ~b, it)
      ELSE IF t[k + 1] = "*"
        THEN ScanFrom(t, k + 1, flushed, <<>>, b, ~it)
      ELSE IF t[k + 1] = BT /\ k + 2 < Len(t) /\ Slice(t, k, k + 3) = Fence
        THEN LET found == IndexOf(t, Fence, k + 3)
                 codeEnd == IF found = -1 THEN Len(t) ELSE found
             IN  ScanFrom(t, codeEnd + 2 + 1,
                          Append(rs, CodeRun(Slice(t, k + 3, codeEnd), FALSE)),
                          cur, b, it)
      ELSE IF t[k + 1] = BT
        THEN LET found == IndexOf(t, <<BT>>, k + 1)
                 codeEnd == IF found = -1 THEN Len(t) ELSE found
             IN  ScanFrom(t, codeEnd + 1,
                          Append(rs, CodeRun(Slice(t, k + 1, codeEnd), TRUE)),
                          cur, b, it)
      ELSE ScanFrom(t, k + 1, rs, Append(cur, t[k + 1]), b, it)

\* DocxGenerator.parseInlineFormatting(text)
parseInlineFormatting(t) ==
  LET rs == ScanFrom(t, 0, <<>>, <<>>, FALSE, FALSE)
  IN  IF Len(rs) > 0 THEN rs ELSE <<PlainRun(t, FALSE, FALSE)>>

----------------------------------------------------------------------------
(* Numbers computed from values of the style sheet *)

\* a number that is an integer, and the number NaN
Whole(n) == [t |-> "int", n |-> n]
NaN == [t |-> "NaN"]

\* the value of a numeric literal of the model, in hundredths
Value100(lit) ==
  CASE lit = "0" -> 0
    [] lit = "1" -> 100
    [] lit = "2" -> 200
    [] lit = "3" -> 300
    [] lit = "9" -> 900
    [] lit = "10.5" -> 1050
    [] lit = "12" -> 1200
    [] lit = "14" -> 1400
    [] lit = "15.75" -> 1575
    [] lit = "16" -> 1600
    [] lit = "18" -> 1800
    [] lit = "22" -> 2200
    [] lit = "25.4" -> 2540
    [] lit = "26" -> 2600
    [] lit = "31.7" -> 3170
    [] lit = "100" -> 10000
    [] lit = "148" -> 14800
    [] lit = "210" -> 21000
    [] lit = "297" -> 29700
    [] lit = "360" -> 36000
    [] lit = "480" -> 48000

\* the number that arithmetic makes of a value, in hundredths: undefined and
\* an object give NaN, null gives 0
ToNumber(v) ==
  CASE v.t = "number" -> Whole(Value100(v.v))
    [] v.t = "null" -> Whole(0)
    [] OTHER -> NaN

\* mmToTwip(v) for a value v of the style sheet
mmToTwipOf(v) ==
  IF ToNumber(v).t = "int" THEN Whole(mmToTwip(ToNumber(v).n)) ELSE NaN

\* ptToHalfPoints(v) for a value v of the style sheet
ptToHalfPointsOf(v) ==
  IF ToNumber(v).t = "int" THEN Whole(ptToHalfPoints(ToNumber(v).n)) ELSE NaN

\* mmToTwip(n) for a literal n of whole millimetres
Twips(n) == Whole(mmToTwip(n * 100))

----------------------------------------------------------------------------
(* DocxGenerator: createStyles and createDocumentFromParsed.  The style     *)
(* sheet is passed as sheet (this.styleConfig).  Identifiers and fonts are  *)
(* string values; text is a sequence of characters.                         *)

\* a property read  x.k  throws a TypeError when x is undefined or null
IsNullish(v) == v.t \in {"undefined", "null"}

\* the objects of the sheet whose properties createStyles, createParagraph
\* and createDocumentFromParsed read
Dereferenced ==
  {<<"page">>, <<"page", "size">>, <<"page", "margins">>,
   <<"font">>, <<"font", "size">>,
   <<"paragraph">>, <<"paragraph", "spacing">>, <<"paragraph", "indent">>}

\* assembling with this sheet throws a TypeError
Throws(sheet) ==
  \/ \E p \in Dereferenced : IsNullish(GetPath(sheet, p))
  \/ Get(sheet, "headingStyles").t # "array"
  \/ \E k \in 1..Len(Get(sheet, "headingStyles").e) :
       IsNullish(Get(sheet, "headingStyles").e[k])

runFonts(sheet) ==
  [eastAsia |-> GetPath(sheet, <<"font", "eastAsia">>),
   ascii |-> GetPath(sheet, <<"font", "ascii">>)]

\* getHeadingFontSize(level): fontSizes[level] || this.styleConfig.font.size.heading
getHeadingFontSize(sheet, level) ==
  CASE level = Num("1") -> Num("26")
    [] level = Num("2") -> Num("22")
    [] level = Num("3") -> Num("18")
    [] level = Num("4") -> Num("16")
    [] level = Num("5") -> Num("14")
    [] level = Num("6") -> Num("12")
    [] OTHER -> GetPath(sheet, <<"font", "size", "heading">>)

\* the paragraph style that createStyles makes of one element of headingStyles
HeadingParagraphStyle(sheet, h) ==
  [id |-> Get(h, "styleId"), name |-> Get(h, "name"),
   basedOn |-> Get(h, "basedOn"), next |-> Get(h, "next"),
   quickFormat |-> Get(h, "quickFormat"),
   runFonts |-> runFonts(sheet),
   fontSize |-> ptToHalfPointsOf(getHeadingFontSize(sheet, Get(h, "level"))),
   bold |-> ToNumber(Get(h, "level")).t = "int"
            /\ ToNumber(Get(h, "level")).n <= 200,
   spacing |-> [before |-> Twips(12), after |-> Twips(6)],
   outline |-> [level |-> Get(h, "level")]]

\* createStyles().paragraphStyles
createStyles(sheet) ==
  <<[id |-> Str("Normal"), name |-> Str("Normal"),
     runFonts |-> runFonts(sheet),
     fontSize |-> ptToHalfPointsOf(GetPath(sheet, <<"font", "size", "body">>)),
     spacing |-> [line |-> GetPath(sheet, <<"paragraph", "spacing", "line">>),
                  before |-> Twips(0), after |-> Twips(6)],
     indent |-> [firstLine |->
                   mmToTwipOf(GetPath(sheet, <<"paragraph", "indent", "firstLine">>))]],
    [id |-> Str("Title"), name |-> Str("Title"),
     runFonts |-> runFonts(sheet),
     fontSize |-> Whole(ptToHalfPoints(2600)), bold |-> TRUE,
     spacing |-> [before |-> Twips(20), after |-> Twips(20)],
     alignment |-> "center"]>>
  \o [k \in 1..Len(Get(sheet, "headingStyles").e) |->
        HeadingParagraphStyle(sheet, Get(sheet, "headingStyles").e[k])]
  \o
  <<[id |-> Str("ListParagraph"), name |-> Str("List Paragraph"),
     basedOn |-> Str("Normal"),
     runFonts |-> runFonts(sheet),
     fontSize |-> ptToHalfPointsOf(GetPath(sheet, <<"font", "size", "body">>)),
     spacing |-> [line |-> GetPath(sheet, <<"paragraph", "spacing", "line">>),
                  before |-> Twips(0), after |-> Twips(0)]],
    [id |-> Str("CodeBlock"), name |-> Str("Code Block"),
     basedOn |-> Str("Normal"),
     runFonts |-> [eastAsia |-> Str("Consolas"), ascii |-> Str("Consolas")],
     fontSize |-> Whole(ptToHalfPoints(900)),
     spacing |-> [before |-> Twips(6), after |-> Twips(6)],
     indent |-> [firstLine |-> Twips(4)],
     shading |-> TRUE]>>

\* the decimal digits of a natural number, as characters
RECURSIVE DigitsOf(_)
DigitsOf(n) ==
  LET d == <<"0", "1", "2", "3", "4", "5", "6", "7", "8", "9">>[(n % 10) + 1]
  IN  IF n < 10 THEN <<d>> ELSE Append(DigitsOf(n \div 10), d)

\* new Paragraph({ text: options.title, style: 'Title', ... })
TitleParagraph(options) ==
  [text |-> Get(options, "title"), style |-> Str("Title"),
   alignment |-> "center",
   spacing |-> [before |-> Twips(20), after |-> Twips(20)]]

\* createHeading(data): style Heading<Math.min(data.level, 6)>
createHeading(data) ==
  LET headingLevel == IF data.level < 6 THEN data.level ELSE 6
  IN  <<[text |-> data.text,
         style |-> Str("Heading" \o ToString(headingLevel)),
         spacing |-> [before |-> Twips(12), after |-> Twips(6)]]>>

\* createParagraph(text)
createParagraph(sheet, t) ==
  <<[children |-> parseInlineFormatting(t),
     style |-> Str("Normal"),
     indent |-> [firstLine |->
                   mmToTwipOf(GetPath(sheet, <<"paragraph", "indent", "firstLine">>))],
     spacing |-> [line |-> GetPath(sheet, <<"paragraph", "spacing", "line">>),
                  after |-> Twips(6)]]>>

\* mutant of createList: the ordinals count from 0
createListCountsFromZero(data) ==
  [k \in 1..Len(data.items) |->
     [children |->
        <<PlainRun(IF data.type = "bullet" THEN <<"·", " ">>
                   ELSE DigitsOf(k - 1) \o <<".", " ">>, FALSE, FALSE)>>
        \o parseInlineFormatting(data.items[k]),
      style |-> Str("ListParagraph"),
      indent |-> [left |-> Twips(4), hanging |-> Twips(2)],
      spacing |-> [after |-> Twips(3)]]]

\* createList(data): one paragraph for each item, with its prefix run
createList(data) ==
  [k \in 1..Len(data.items) |->
     [children |->
        <<PlainRun(IF data.type = "bullet" THEN <<"·", " ">>
                   ELSE DigitsOf(k) \o <<".", " ">>, FALSE, FALSE)>>
        \o parseInlineFormatting(data.items[k]),
      style |-> Str("ListParagraph"),
      indent |-> [left |-> Twips(4), hanging |-> Twips(2)],
      spacing |-> [after |-> Twips(3)]]]

\* createCodeBlock(code): one paragraph with code.split('\n').join('\n')
createCodeBlock(code) ==
  <<[children |->
       <<CodeRun(JoinLines(Split(code)), FALSE)>>,
     style |-> Str("CodeBlock"),
     indent |-> [left |-> Twips(8), firstLine |-> Twips(4)],
     spacing |-> [before |-> Twips(6), after |-> Twips(6)]]>>

\* mutant of ParagraphsOf: a list pushes the paragraph of its first item only
ParagraphsOfFirstItemOnly(sheet, element) ==
  CASE element.type = "heading" -> createHeading(element.content)
    [] element.type = "paragraph" -> createParagraph(sheet, element.content)
    [] element.type = "list" -> SubSeq(createList(element.content), 1, 1)
    [] element.type = "code" -> createCodeBlock(element.content)
    [] OTHER -> <<>>

\* the paragraphs that the switch of createDocumentFromParsed pushes for one
\* element; an element of another type pushes none
ParagraphsOf(sheet, element) ==
  CASE element.type = "heading" -> createHeading(element.content)
    [] element.type = "paragraph" -> createParagraph(sheet, element.content)
    [] element.type = "list" -> createList(element.content)
    [] element.type = "code" -> createCodeBlock(element.content)
    [] OTHER -> <<>>

\* the children array after the loop over parsed
RECURSIVE ChildrenOf(_, _)
ChildrenOf(sheet, parsed) ==
  IF parsed = <<>> THEN <<>>
  ELSE ParagraphsOf(sheet, Head(parsed)) \o ChildrenOf(sheet, Tail(parsed))

\* the exception thrown by a property read on undefined or null
TypeError == [status |-> "TypeError"]

\* createDocumentFromParsed(parsed, options): the Document, or the throw
createDocumentFromParsed(parsed, options, sheet) ==
  IF Throws(sheet) THEN TypeError
  ELSE
    [status |-> "document",
     creator |-> IF Truthy(Get(options, "author")) THEN Get(options, "author")
                 ELSE Str("DocForge"),
     title |-> Get(options, "title"),
     description |-> Get(options, "description"),
     styles |-> createStyles(sheet),
     page |->
       [size |->
          [width |-> mmToTwipOf(GetPath(sheet, <<"page", "size", "width">>)),
           height |-> mmToTwipOf(GetPath(sheet, <<"page", "size", "height">>)),
           orientation |-> GetPath(sheet, <<"page", "orientation">>)],
        margin |->
          [top |-> mmToTwipOf(GetPath(sheet, <<"page", "margins", "top">>)),
           right |-> mmToTwipOf(GetPath(sheet, <<"page", "margins", "right">>)),
           bottom |-> mmToTwipOf(GetPath(sheet, <<"page", "margins", "bottom">>)),
           left |-> mmToTwipOf(GetPath(sheet, <<"page", "margins", "left">>))]],
     children |->
       (IF Truthy(Get(options, "title")) THEN <<TitleParagraph(options)>>
        ELSE <<>>)
       \o ChildrenOf(sheet, parsed)]

----------------------------------------------------------------------------
(* DocxGenerator: construction *)

StyleInit ==
  /\ overrides \in Overrides
  /\ held = overrides
  /\ styleConfig = Undefined
  /\ spc = "new"
  /\ aliased = {}
  /\ document = <<>>
  /\ UnitIdle
  /\ ReqIdle
  /\ InlineIdle
  /\ lines = <<>>
  /\ i = 0
  /\ elements = <<>>
  /\ currentList = NoList
  /\ currentParagraph = <<>>
  /\ codeContent = <<>>
  /\ pc = "idle"
  /\ srcs = <<>>
  /\ listSrc = <<>>
  /\ paraSrc = <<>>
  /\ codeSrc = <<>>

\* a value that is held by reference
IsRef(v) == v.t \in {"object", "array"}

\* the groups that mergeStyles rebuilds with a spread, one level deep
Groups == {"page", "font", "paragraph", "styles"}

\* the paths at which the object returned by mergeStyles(ov) holds the very
\* object or array that ov holds: a spread and || copy references
SharedPaths(ov) ==
  {<<k>> : k \in {k \in DOMAIN Spread(ov) \ (Groups \cup {"headingStyles", "listStyles"}) :
                    IsRef(Get(ov, k))}}
  \cup UNION {{<<g, n>> : n \in {n \in DOMAIN Spread(Get(ov, g)) :
                                    IsRef(GetPath(ov, <<g, n>>))}} :
               g \in Groups}
  \cup {<<k>> : k \in {k \in {"headingStyles", "listStyles"} :
                       Truthy(Get(ov, k)) /\ IsRef(Get(ov, k))}}

\* constructor(styleConfig) { this.styleConfig = this.mergeStyles(styleConfig) }
Construct ==
  /\ spc = "new"
  /\ styleConfig' = mergeStyles(overrides)
  /\ aliased' = SharedPaths(overrides)
  /\ spc' = "built"
  /\ UNCHANGED <<overrides, held, document>>
  /\ UNCHANGED <<parserVars, inlineVars, unitVars, reqVars>>

\* the parsed elements and the options handed to createDocumentFromParsed
SampleCalls ==
  {[parsed |-> <<>>, options |-> Obj(EmptyProps)],
   [parsed |-> <<Element("heading", [level |-> 1, text |-> <<"a">>]),
                 Element("paragraph", <<"e">>)>>,
    options |-> Obj(Props1("title", Str("Report")))],
   [parsed |-> <<Element("heading", [level |-> 2, text |-> <<"a">>]),
                 Element("heading", [level |-> 6, text |-> <<"a">>]),
                 Element("heading", [level |-> 7, text |-> <<"a">>])>>,
    options |-> Obj(EmptyProps)],
   [parsed |-> <<Element("heading", [level |-> 0, text |-> <<"a">>])>>,
    options |-> Obj(EmptyProps)],
   [parsed |-> <<Element("heading", [level |-> 0 - 1, text |-> <<"a">>])>>,
    options |-> Obj(EmptyProps)]}

\* createDocumentFromParsed(parsed, options) on the constructed generator
Assemble ==
  /\ spc = "built"
  /\ \E call \in SampleCalls :
       document' = createDocumentFromParsed(call.parsed, call.options,
                                            styleConfig)
  /\ UNCHANGED <<overrides, held, styleConfig, spc, aliased>>
  /\ UNCHANGED <<parserVars, inlineVars, unitVars, reqVars>>

\* x.k = value
Put(x, k, value) ==
  CASE x.t = "object" ->
         Obj([n \in DOMAIN x.f \cup {k} |-> IF n = k THEN value ELSE x.f[n]])
    [] x.t = "array" /\ k = "length" /\ value = Num("0") -> Arr(<<>>)
    [] OTHER -> x

\* v.p1.p2... .k = value
RECURSIVE SetPath(_, _, _, _)
SetPath(v, path, k, value) ==
  IF path = <<>> THEN Put(v, k, value)
  ELSE Obj([v.f EXCEPT ![Head(path)] = SetPath(@, Tail(path), k, value)])

\* the assignments the caller makes to the object it passed to the
\* constructor: to a scalar of a nested object, to the length of a list, to a
\* scalar of a group and to a top-level scalar
CallerWrites ==
  {[path |-> <<"page", "size">>, key |-> "width", value |-> Num("100")],
   [path |-> <<"font", "size">>, key |-> "body", value |-> Num("18")],
   [path |-> <<"styles", "Quote">>, key |-> "alignment", value |-> Str("left")],
   [path |-> <<"headingStyles">>, key |-> "length", value |-> Num("0")],
   [path |-> <<"page">>, key |-> "orientation", value |-> Str("portrait")],
   [path |-> <<>>, key |-> "version", value |-> Str("v0.3")]}

\* the caller assigns into the override after the construction; the write
\* is seen through every reference to the object written
CallerMutates ==
  /\ spc = "built"
  /\ \E w \in CallerWrites :
       /\ IsRef(GetPath(held, w.path))
       /\ SetPath(held, w.path, w.key, w.value) # held
       /\ held' = SetPath(held, w.path, w.key, w.value)
       /\ styleConfig' =
            IF \E n \in 1..Len(w.path) : SubSeq(w.path, 1, n) \in aliased
            THEN SetPath(styleConfig, w.path, w.key, w.value)
            ELSE styleConfig
  /\ UNCHANGED <<overrides, spc, aliased, document>>
  /\ UNCHANGED <<parserVars, inlineVars, unitVars, reqVars>>

\* the generator in use: the construction, calls of
\* createDocumentFromParsed, and writes of the caller to the object it passed
GenOverrides ==
  {Undefined,
   Obj(EmptyProps),
   Obj(Props1("page", Obj(Props1("orientation", Str("landscape"))))),
   Obj(Props1("page", Obj(Props1("size", Obj(Props1("width", Num("148"))))))),
   Obj(Props1("page", Obj(Props1("margins", Undefined)))),
   Obj(Props1("font", Obj(Props1("size", Obj(Props1("body", Num("12"))))))),
   Obj(Props1("headingStyles",
              Arr(<<HeadingStyle("1", "Heading1", "Chapter", "Normal")>>))),
   Obj(Props1("headingStyles", Arr(<<>>))),
   Obj(Props1("styles",
              Obj(Props1("Quote", Obj(Props1("alignment", Str("center"))))))),
   Obj([page |-> Obj(Props1("size", Obj([width |-> Num("148"),
                                         height |-> Num("210")]))),
        font |-> Obj(Props1("size", Obj(Props1("body", Num("12"))))),
        headingStyles |->
          Arr(<<HeadingStyle("1", "Heading1", "Chapter", "Normal")>>),
        styles |-> Obj(Props1("Quote", Obj(Props1("alignment", Str("center")))))])}

GenInit ==
  /\ overrides \in GenOverrides
  /\ held = overrides
  /\ styleConfig = Undefined
  /\ spc = "new"
  /\ aliased = {}
  /\ document = <<>>
  /\ ParserIdle
  /\ InlineIdle
  /\ UnitIdle
  /\ ReqIdle

GenNext ==
  \/ Construct
  \/ Assemble
  \/ CallerMutates

GenSpec == GenInit /\ [][GenNext]_vars

StyleNext == Construct

StyleSpec == StyleInit /\ [][StyleNext]_vars

----------------------------------------------------------------------------
(* parseMarkdownContent as a function of its argument: the loop from index  *)
(* k (0-based) with the elements els, the open list list and the paragraph  *)
(* buffer para                                                              *)

RECURSIVE ParseFrom(_, _, _, _, _)
ParseFrom(ls, k, els, list, para) ==
  LET line == ls[k + 1]
      flushP == IF para # <<>>
                THEN Append(els, Element("paragraph", Trim(para)))
                ELSE els
      flushPL == IF list # NoList
                 THEN Append(flushP, Element("list", list))
                 ELSE flushP
      listMatch == ListMatch(line)
      itemText == Trim(IF listMatch.ok THEN listMatch.g
                                       ELSE NumListMatch(line).g)
      listType == IF listMatch.ok THEN "bullet" ELSE "number"
      \* the lines of the fence: those after line k up to the next fence line
      inFence == {n \in (k + 1)..(Len(ls) - 1) :
                    \A j \in (k + 1)..n : ~StartsWith(ls[j + 1], Fence)}
      codeContent_ == Flatten([n \in 1..Cardinality(inFence) |->
                                  ls[k + 1 + n] \o <<NL>>])
  IN  IF ~(k < Len(ls)) THEN flushPL
      ELSE IF Trim(line) = <<>>
        THEN ParseFrom(ls, k + 1, flushPL, NoList, <<>>)
      ELSE IF HeadingMatch(line).ok
        THEN ParseFrom(ls, k + 1,
                       Append(flushPL,
                              Element("heading",
                                      [level |-> HeadingMatch(line).level,
                                       text |-> Trim(HeadingMatch(line).g)])),
                       NoList, <<>>)
      ELSE IF listMatch.ok \/ NumListMatch(line).ok
        THEN IF list = NoList \/ list.type # listType
             THEN ParseFrom(ls, k + 1, flushPL,
                            [type |-> listType, items |-> <<itemText>>], <<>>)
             ELSE ParseFrom(ls, k + 1, flushP,
                            [list EXCEPT !.items = Append(@, itemText)], <<>>)
      ELSE IF StartsWith(line, Fence)
        THEN ParseFrom(ls, k + 1 + Cardinality(inFence) + 1,
                       Append(flushPL, Element("code", Trim(codeContent_))),
                       NoList, <<>>)
      ELSE ParseFrom(ls, k + 1, els, list, para \o line \o <<NL>>)

\* parseMarkdownContent(content)
parseMarkdownContent(content) ==
  ParseFrom(Split(content), 0, <<>>, NoList, <<>>)

----------------------------------------------------------------------------
(* DocxGenerator.generateFromMarkdown: calls on one generator, interleaved  *)
(* at the two awaits.  JavaScript runs a call without interruption up to    *)
(* its next await, so one call at a time is in parseMarkdownContent; the    *)
(* parser's variables are the locals of that call.                          *)

NumRequests == 2

Requests == 1..NumRequests

MarkdownA == JoinLines(<<L_heading, L_empty, L_text>>)
MarkdownB == JoinLines(<<L_dash, L_star, L_fence, L_text, L_fence>>)

\* the arguments (markdown, outputPath, options) of the calls
RequestArgs ==
  {[markdown |-> MarkdownA, outputPath |-> "a.docx",
    options |-> Obj(Props1("title", Str("Report")))],
   [markdown |-> MarkdownB, outputPath |-> "a.docx",
    options |-> Obj(EmptyProps)],
   [markdown |-> MarkdownB, outputPath |-> "b.docx",
    options |-> Obj(EmptyProps)]}

OutputPaths == {"a.docx", "b.docx"}

NewRequest(args) ==
  [markdown |-> args.markdown, outputPath |-> args.outputPath,
   options |-> args.options, at |-> "new", doc |-> <<>>, buffer |-> <<>>]

\* the overrides of the generator that serves the calls
ConcOverrides ==
  {Undefined, Obj(Props1("font", Obj(Props1("eastAsia", Str("KaiTi")))))}

ConcInit ==
  /\ requests \in [Requests -> {NewRequest(a) : a \in RequestArgs}]
  /\ running = 0
  /\ files = [p \in OutputPaths |-> <<>>]
  /\ overrides \in ConcOverrides
  /\ held = overrides
  /\ styleConfig = mergeStyles(overrides)
  /\ aliased = SharedPaths(overrides)
  /\ spc = "built"
  /\ document = <<>>
  /\ ParserIdle
  /\ InlineIdle
  /\ UnitIdle

\* mutant of Begin: elements is not a fresh array of the call
BeginKeepsElements(r) ==
  /\ running = 0
  /\ requests[r].at = "new"
  /\ requests' = [requests EXCEPT ![r].at = "parsing"]
  /\ running' = r
  /\ lines' = Split(requests[r].markdown)
  /\ i' = 0
  /\ currentList' = NoList
  /\ currentParagraph' = <<>>
  /\ codeContent' = <<>>
  /\ pc' = "scan"
  /\ srcs' = <<>>
  /\ listSrc' = <<>>
  /\ paraSrc' = <<>>
  /\ codeSrc' = <<>>
  /\ UNCHANGED <<elements, files>>
  /\ UNCHANGED <<inlineVars, styleVars, unitVars>>

\* generateFromMarkdown(markdown, outputPath, options) is entered and calls
\* parseMarkdownContent(markdown), whose locals are fresh
Begin(r) ==
  /\ running = 0
  /\ requests[r].at = "new"
  /\ requests' = [requests EXCEPT ![r].at = "parsing"]
  /\ running' = r
  /\ lines' = Split(requests[r].markdown)
  /\ i' = 0
  /\ elements' = <<>>
  /\ currentList' = NoList
  /\ currentParagraph' = <<>>
  /\ codeContent' = <<>>
  /\ pc' = "scan"
  /\ srcs' = <<>>
  /\ listSrc' = <<>>
  /\ paraSrc' = <<>>
  /\ codeSrc' = <<>>
  /\ UNCHANGED files
  /\ UNCHANGED <<inlineVars, styleVars, unitVars>>

\* const doc = this.createDocumentFromParsed(parsed, options), then the call
\* is suspended at  await Packer.toBuffer(doc); a throw rejects the call
Built(r) ==
  /\ running = r
  /\ pc = "done"
  /\ LET doc == createDocumentFromParsed(elements, requests[r].options,
                                         styleConfig)
     IN  requests' = [requests EXCEPT
                        ![r].doc = doc,
                        ![r].at = IF doc = TypeError THEN "rejected"
                                  ELSE "packing"]
  /\ running' = 0
  /\ pc' = "idle"
  /\ UNCHANGED <<lines, i, elements, currentList, currentParagraph,
                 codeContent, srcs, listSrc, paraSrc, codeSrc>>
  /\ UNCHANGED files
  /\ UNCHANGED <<inlineVars, styleVars, unitVars>>

\* Packer.toBuffer(doc) resolves: the buffer holds the document; the call
\* goes on to  await fs.promises.writeFile(outputPath, buffer)
Packed(r) ==
  /\ running = 0
  /\ requests[r].at = "packing"
  /\ requests' = [requests EXCEPT ![r].buffer = [bytesOf |-> requests[r].doc],
                                  ![r].at = "writing"]
  /\ UNCHANGED <<running, files>>
  /\ UNCHANGED <<parserVars, inlineVars, styleVars, unitVars>>

\* writeFile resolves: the file holds the buffer, and the call returns
Written(r) ==
  /\ running = 0
  /\ requests[r].at = "writing"
  /\ files' = [files EXCEPT ![requests[r].outputPath] = requests[r].buffer]
  /\ requests' = [requests EXCEPT ![r].at = "returned"]
  /\ UNCHANGED running
  /\ UNCHANGED <<parserVars, inlineVars, styleVars, unitVars>>

ConcNext ==
  \/ \E r \in Requests : Begin(r)
  \/ BlankLine
  \/ HeadingLine
  \/ ListItemLine
  \/ FenceOpen
  \/ CodeLine
  \/ FenceClose
  \/ ParagraphLine
  \/ EndOfInput
  \/ \E r \in Requests : Built(r)
  \/ \E r \in Requests : Packed(r)
  \/ \E r \in Requests : Written(r)

ConcSpec == ConcInit /\ [][ConcNext]_vars

----------------------------------------------------------------------------
(* DocxGenerator.generateFromMarkdown: one call on a generator built with   *)
(* no overrides, over every short Markdown text                             *)

MaxDocLines == 3

L_seven == <<"7", ".", " ", "f">>

DocLineSet ==
  {L_empty, L_heading, L_dash, L_number, L_seven, L_fence, L_text}

DocContents ==
  {JoinLines(ls) : ls \in UNION {[1..n -> DocLineSet] : n \in 0..MaxDocLines}}

\* options: none, a title, and the empty string as title
DocOptions ==
  {Obj(EmptyProps), Obj(Props1("title", Str("Report"))),
   Obj(Props1("title", Str("")))}

DocInit ==
  /\ requests \in [{1} -> {NewRequest([markdown |-> m, outputPath |-> "a.docx",
                                       options |-> o]) :
                             m \in DocContents, o \in DocOptions}]
  /\ running = 0
  /\ files = [p \in OutputPaths |-> <<>>]
  /\ overrides = Undefined
  /\ held = overrides
  /\ styleConfig = mergeStyles(overrides)
  /\ aliased = SharedPaths(overrides)
  /\ spc = "built"
  /\ document = <<>>
  /\ ParserIdle
  /\ InlineIdle
  /\ UnitIdle

DocNext ==
  \/ Begin(1)
  \/ BlankLine
  \/ HeadingLine
  \/ ListItemLine
  \/ FenceOpen
  \/ CodeLine
  \/ FenceClose
  \/ ParagraphLine
  \/ EndOfInput
  \/ Built(1)
  \/ Packed(1)
  \/ Written(1)

DocSpec == DocInit /\ [][DocNext]_vars

----------------------------------------------------------------------------
(* DocxGenerator.generateFile: the sections are written out as Markdown,    *)
(* which is handed to generateFromMarkdown                                  *)

MaxSections == 2

SectionSet ==
  {[title |-> t, level |-> l, content |-> c] :
     t \in {<<"a">>, <<"b">>},
     l \in {1, 0, 7, 0 - 1},
     c \in {<<>>, L_dash, L_fence}}

SectionLists == UNION {[1..n -> SectionSet] : n \in 1..MaxSections}

\* '#'.repeat(n), for n >= 0
RepeatHash(n) == [k \in 1..n |-> "#"]

Min(a, b) == IF a < b THEN a ELSE b

\* the Markdown that the loop of generateFile builds
RECURSIVE SectionsMarkdown(_)
SectionsMarkdown(sections) ==
  IF sections = <<>> THEN <<>>
  ELSE LET section == Head(sections)
           headingPrefix == RepeatHash(Min(section.level, 6))
       IN  headingPrefix \o <<" ">> \o section.title \o <<NL, NL>>
           \o section.content \o <<NL, NL>>
           \o SectionsMarkdown(Tail(sections))

FileInit ==
  /\ requests \in [{1} -> {[sections |-> ss, markdown |-> <<>>,
                            outputPath |-> "a.docx",
                            options |-> Obj(EmptyProps), at |-> "file",
                            doc |-> <<>>, buffer |-> <<>>] :
                             ss \in SectionLists}]
  /\ running = 0
  /\ files = [p \in OutputPaths |-> <<>>]
  /\ overrides = Undefined
  /\ held = overrides
  /\ styleConfig = mergeStyles(overrides)
  /\ aliased = SharedPaths(overrides)
  /\ spc = "built"
  /\ document = <<>>
  /\ ParserIdle
  /\ InlineIdle
  /\ UnitIdle

\* generateFile(sections, options, outputPath) up to its call of
\* generateFromMarkdown; String.prototype.repeat throws a RangeError on a
\* negative count, which rejects the call
GenerateFile(r) ==
  /\ running = 0
  /\ requests[r].at = "file"
  /\ requests' =
       IF \E k \in 1..Len(requests[r].sections) :
            Min(requests[r].sections[k].level, 6) < 0
       THEN [requests EXCEPT ![r].at = "rejected"]
       ELSE [requests EXCEPT
               ![r].markdown = SectionsMarkdown(requests[r].sections),
               ![r].at = "new"]
  /\ UNCHANGED <<running, files>>
  /\ UNCHANGED <<parserVars, inlineVars, styleVars, unitVars>>

FileNext ==
  \/ GenerateFile(1)
  \/ Begin(1)
  \/ BlankLine
  \/ HeadingLine
  \/ ListItemLine
  \/ FenceOpen
  \/ CodeLine
  \/ FenceClose
  \/ ParagraphLine
  \/ EndOfInput
  \/ Built(1)
  \/ Packed(1)
  \/ Written(1)

FileSpec == FileInit /\ [][FileNext]_vars

----------------------------------------------------------------------------
(* Reading the parser's result *)

Occurrences(seq, x) == Cardinality({k \in 1..Len(seq) : seq[k] = x})

IsBlank(line) == Trim(line) = <<>>

IsFenceLine(line) == StartsWith(line, Fence)

\* the texts a block holds, one per source line that reached it
Pieces(e) ==
  CASE e.type = "heading" -> <<e.content.text>>
    [] e.type = "list" -> e.content.items
    [] e.type = "paragraph" -> Split(e.content)
    [] e.type = "code" -> IF e.content = <<>> THEN <<>> ELSE Split(e.content)

\* the lines behind the pieces of block b; codeContent.trim() drops the blank
\* lines that lead and trail a code block
PieceSrcs(b) ==
  IF elements[b].type # "code" THEN srcs[b]
  ELSE LET nb == {k \in 1..Len(srcs[b]) : ~IsBlank(lines[srcs[b][k]])}
       IN  IF nb = {} THEN <<>>
           ELSE SubSeq(srcs[b],
                       CHOOSE k \in nb : \A m \in nb : k <= m,
                       CHOOSE k \in nb : \A m \in nb : k >= m)

AllPieceSrcs == Flatten([b \in 1..Len(elements) |-> PieceSrcs(b)])

\* a heading, bullet or number marker, or nothing
IsMarker(p) ==
  \/ p = <<>>
  \/ Len(p) \in 1..6 /\ \A k \in 1..Len(p) : p[k] = "#"
  \/ p \in {<<"-">>, <<"*">>}
  \/ /\ Len(p) >= 2
     /\ p[Len(p)] = "."
     /\ \A k \in 1..(Len(p) - 1) : p[k] \in Digits

\* piece is the text of line with at most a marker and white space taken off
IsContentOf(piece, line) ==
  \E n \in 0..Len(Trim(line)) :
    /\ IsMarker(SubSeq(Trim(line), 1, n))
    /\ Trim(piece) = TrimStart(Drop(Trim(line), n))

\* every piece of every block is the content of the line recorded for it
PiecesMatchLines ==
  /\ Len(srcs) = Len(elements)
  /\ \A b \in 1..Len(elements) :
       /\ Len(Pieces(elements[b])) = Len(PieceSrcs(b))
       /\ \A k \in 1..Len(PieceSrcs(b)) :
            /\ PieceSrcs(b)[k] \in 1..Len(lines)
            /\ IsContentOf(Pieces(elements[b])[k], lines[PieceSrcs(b)[k]])

----------------------------------------------------------------------------
(* Claims about parseMarkdownContent *)

\* C1 as stated: when the parser returns, every non-blank input line has
\* contributed its content to exactly one piece of exactly one block.
C1_EveryNonBlankLineOnce ==
  pc = "done" =>
    /\ PiecesMatchLines
    /\ \A j \in 1..Len(lines) :
         ~IsBlank(lines[j]) => Occurrences(AllPieceSrcs, j) = 1

\* C1 amended: when the parser returns, every non-blank input line that does
\* not start with a triple backtick has contributed its content to exactly one
\* piece of exactly one block, and a line that starts with a triple backtick
\* (a fence line, its info string included) has contributed to none.
C1_EveryContentLineOnce ==
  pc = "done" =>
    /\ PiecesMatchLines
    /\ \A j \in 1..Len(lines) :
         /\ ~IsBlank(lines[j]) /\ ~IsFenceLine(lines[j])
              => Occurrences(AllPieceSrcs, j) = 1
         /\ IsFenceLine(lines[j]) => Occurrences(AllPieceSrcs, j) = 0

\* C1 witness: a text with a heading, a list item, a fence line and a code
\* line has been parsed into three blocks.
C1_Witness ==
  /\ pc = "done"
  /\ lines = <<L_heading, L_dash, L_fence, L_text>>
  /\ Len(elements) = 3
  /\ elements[3] = Element("code", <<"e">>)

\* the kind of list item a line is, by the patterns the parser tries
LineKind(line) ==
  IF HeadingMatch(line).ok THEN "other"
  ELSE IF ListMatch(line).ok THEN "bullet"
  ELSE IF NumListMatch(line).ok THEN "number"
  ELSE "other"

\* the item text of a list-item line
ItemText(line) ==
  Trim(IF ListMatch(line).ok THEN ListMatch(line).g ELSE NumListMatch(line).g)

ListBlocks == {b \in 1..Len(elements) : elements[b].type = "list"}

\* the list block that holds the item read from line j, or 0
ListBlockOf(j) ==
  IF \E b \in ListBlocks : Occurrences(srcs[b], j) > 0
  THEN CHOOSE b \in ListBlocks : Occurrences(srcs[b], j) > 0
  ELSE 0

\* scenario B of the specification, with the item texts of LineSet, and the
\* blank lines that a trailing newline adds
ScenarioB(ls) ==
  /\ Len(ls) >= 4
  /\ SubSeq(ls, 1, 4) = <<L_dash, L_star, L_empty, L_number>>
  /\ \A k \in 5..Len(ls) : ls[k] = L_empty

\* C6: when the parser returns, every List block holds, in input order, the
\* item texts of list-item lines of its own kind only; two adjacent list-item
\* lines of one kind are adjacent items of one block; two adjacent list-item
\* lines of different kinds end one block and begin the next; and two bullet
\* lines, a blank line and a numbered line give a bullet list of two items
\* followed by a numbered list of one.
C6_ListsCoalescedByKind ==
  pc = "done" =>
    /\ Len(srcs) = Len(elements)
    /\ \A b \in ListBlocks :
         LET l == elements[b].content
         IN  /\ Len(l.items) = Len(srcs[b])
             /\ Len(l.items) >= 1
             /\ \A k \in 1..Len(srcs[b]) :
                  /\ LineKind(lines[srcs[b][k]]) = l.type
                  /\ l.items[k] = ItemText(lines[srcs[b][k]])
             /\ \A k \in 1..(Len(srcs[b]) - 1) : srcs[b][k] < srcs[b][k + 1]
    /\ \A j \in 1..(Len(lines) - 1) :
         LET b1 == ListBlockOf(j)
             b2 == ListBlockOf(j + 1)
         IN  b1 # 0 /\ b2 # 0 =>
               IF LineKind(lines[j]) = LineKind(lines[j + 1])
               THEN /\ b1 = b2
                    /\ \E k \in 1..(Len(srcs[b1]) - 1) :
                         srcs[b1][k] = j /\ srcs[b1][k + 1] = j + 1
               ELSE /\ b1 < b2
                    /\ srcs[b1][Len(srcs[b1])] = j
                    /\ srcs[b2][1] = j + 1
    /\ ScenarioB(lines) =>
         elements =
           << Element("list", [type |-> "bullet", items |-> << <<"b">>, <<"c">> >>]),
              Element("list", [type |-> "number", items |-> << <<"d">> >>]) >>

\* C6 witness: scenario B has been parsed into its two lists.
C6_Witness ==
  /\ pc = "done"
  /\ ScenarioB(lines)
  /\ Len(elements) = 2
  /\ elements[1].content.type = "bullet"
  /\ Len(elements[1].content.items) = 2
  /\ elements[2].content.type = "number"

\* a line that ends an open list according to C7: blank, or heading, paragraph
\* line or fence (not a list item)
EndsList(line) == IsBlank(line) \/ LineKind(line) = "other"

\* C7 as stated: when the parser returns, no List block holds two items whose
\* lines have a blank line, a heading, a paragraph line or a fence line
\* between them.
C7_ListEndsAtOtherLine ==
  pc = "done" =>
    \A b \in ListBlocks :
      \A k1, k2 \in 1..Len(srcs[b]) :
        \A j \in 1..Len(lines) :
          srcs[b][k1] < j /\ j < srcs[b][k2] => ~EndsList(lines[j])

\* the first line block b was built from, for a block that has any
FirstSrc(b) == srcs[b][1]

\* C8 as stated: when the parser returns, of two blocks the one whose first
\* source line is earlier in the input is earlier in the result.
C8_BlocksInInputOrder ==
  pc = "done" =>
    \A b1, b2 \in 1..Len(elements) :
      srcs[b1] # <<>> /\ srcs[b2] # <<>> /\ FirstSrc(b1) < FirstSrc(b2)
        => b1 < b2

\* C9: on every input the parser always has a next step until it has
\* returned, every step but the return itself moves the line index forward,
\* and the index never passes the end of the input by more than one: so the
\* parser returns, and no step reads a line that does not exist.
C9_ParserTerminates ==
  /\ [](pc # "done" => ENABLED Next)
  /\ [](i <= Len(lines) + 1)
  /\ [][pc' = "done" \/ i' > i]_vars

\* C9 witness: the parser has returned on a text whose fence is never closed
\* and whose list markers are mixed.
C9_Witness ==
  /\ pc = "done"
  /\ lines = <<L_dash, L_number, L_fence, L_star>>

FenceLines == {j \in 1..Len(lines) : IsFenceLine(lines[j])}

\* a fence is left open at the end of input: fence lines open and close in
\* turn, so their number is odd
HasUnterminatedFence == Cardinality(FenceLines) % 2 = 1

LastFenceLine == CHOOSE j \in FenceLines : \A k \in FenceLines : k <= j

\* the lines after line j, each followed by a newline
RECURSIVE LinesAfter(_)
LinesAfter(j) ==
  IF j >= Len(lines) THEN <<>>
  ELSE lines[j + 1] \o <<NL>> \o LinesAfter(j + 1)

\* C10: when the parser returns on a text whose last fence is left open, the
\* last block is a CodeBlock holding all the lines after the opening fence
\* line, it is the only block built from those lines, and there is one
\* CodeBlock for every pair of fence lines before it.
C10_UnterminatedFenceIsLast ==
  pc = "done" /\ HasUnterminatedFence =>
    /\ Len(elements) >= 1
    /\ Len(srcs) = Len(elements)
    /\ elements[Len(elements)].type = "code"
    /\ elements[Len(elements)].content = Trim(LinesAfter(LastFenceLine))
    /\ \A b \in 1..(Len(elements) - 1) :
         \A k \in 1..Len(srcs[b]) : srcs[b][k] < LastFenceLine
    /\ Cardinality({b \in 1..Len(elements) : elements[b].type = "code"})
         = (Cardinality(FenceLines) + 1) \div 2

\* C10 witness: a fence opened after a paragraph and never closed has
\* swallowed a heading line and a list-item line.
C10_Witness ==
  /\ pc = "done"
  /\ lines = <<L_text, L_fence, L_heading, L_dash>>
  /\ Len(elements) = 2
  /\ elements[2] = Element("code", L_heading \o <<NL>> \o L_dash)
  /\ elements[1] = Element("paragraph", <<"e">>)

----------------------------------------------------------------------------
(* Claims about parseInlineFormatting *)

\* the texts of the runs, joined in the order returned
RECURSIVE ConcatText(_)
ConcatText(rs) ==
  IF rs = <<>> THEN <<>> ELSE Head(rs).text \o ConcatText(Tail(rs))

\* s without its asterisks and backticks
StripMarkers(s) == SelectSeq(s, LAMBDA c : c \notin {"*", BT})

\* C2 as stated, in the part that does not depend on which asterisks and
\* backticks count as markers: when the tokenizer returns, the texts of its
\* runs joined in order hold the characters of the input other than asterisks
\* and backticks, in the order of the input.
C2_RunsReproduceText ==
  tpc = "done" => StripMarkers(ConcatText(result)) = StripMarkers(text)

\* the occurrences of ** in s, counted from the left without overlap
RECURSIVE CountPairs(_)
CountPairs(s) ==
  IF Len(s) < 2 THEN 0
  ELSE IF s[1] = "*" /\ s[2] = "*" THEN 1 + CountPairs(Drop(s, 2))
  ELSE CountPairs(Tail(s))

\* s with every code span, its delimiters included, replaced by one backtick:
\* a span opens at a backtick and runs to the next delimiter of its kind, or
\* to the end of s when there is none
RECURSIVE OutsideCode(_)
OutsideCode(s) ==
  IF s = <<>> THEN <<>>
  ELSE IF s[1] # BT THEN <<s[1]>> \o OutsideCode(Tail(s))
  ELSE LET delim == IF StartsWith(s, Fence) THEN Fence ELSE <<BT>>
           body == Drop(s, Len(delim))
           close == IndexOf(body, delim, 0)
       IN  IF close = -1 THEN <<BT>>
           ELSE <<BT>> \o OutsideCode(Drop(body, close + Len(delim)))

\* C11 as stated: when the tokenizer returns, the number of occurrences of **
\* in the text is even exactly when the bold toggle is back at its initial
\* state, off.
C11_BoldParityOfText ==
  tpc = "done" => (CountPairs(text) % 2 = 0 <=> isBold = FALSE)

\* C11, amended: when the tokenizer returns, the number of occurrences of **
\* outside code spans is even exactly when the bold toggle is back at its
\* initial state, off.
C11_BoldParityOutsideCode ==
  tpc = "done" => (CountPairs(OutsideCode(text)) % 2 = 0 <=> isBold = FALSE)

\* C11 witness: the tokenizer has returned from a text with one ** inside a
\* code span and one ** after it, and the bold toggle is on.
C11_Witness ==
  /\ tpc = "done"
  /\ text = <<BT, "*", "*", BT, "*", "*">>
  /\ isBold = TRUE
  /\ result = <<CodeRun(<<"*", "*">>, TRUE)>>

\* the parts of s between successive **, the empty ones included
RECURSIVE SplitPairs(_, _)
SplitPairs(s, cur) ==
  IF s = <<>> THEN <<cur>>
  ELSE IF Len(s) >= 2 /\ s[1] = "*" /\ s[2] = "*"
       THEN <<cur>> \o SplitPairs(Drop(s, 2), <<>>)
       ELSE SplitPairs(Tail(s), Append(cur, s[1]))

\* s has no backtick and no asterisk outside a **
OnlyBoldMarkers(s) ==
  /\ \A k \in 1..Len(s) : s[k] # BT
  /\ \A k \in 1..Len(SplitPairs(s, <<>>)) :
       \A j \in 1..Len(SplitPairs(s, <<>>)[k]) :
         SplitPairs(s, <<>>)[k][j] # "*"

\* the non-empty parts of s between successive **, as runs that are
\* alternately not bold and bold, the first part not bold
AlternatingRuns(s) ==
  LET segs == SplitPairs(s, <<>>)
      all == [k \in 1..Len(segs) |-> PlainRun(segs[k], k % 2 = 0, FALSE)]
  IN  SelectSeq(all, LAMBDA r : r.text # <<>>)

\* C12: when the tokenizer returns from a text with no backtick and no single
\* asterisk, the runs it built are the non-empty parts of the text between
\* successive **, alternately not bold and bold starting with not bold: each
\* ** closed the pending part with the bold state that held before the flip.
C12_BoldSegmentsAlternate ==
  tpc = "done" /\ OnlyBoldMarkers(text) => runs = AlternatingRuns(text)

\* C12 witness: the tokenizer has returned three runs, not bold, bold, not
\* bold, from a text with one bold part in the middle.
C12_Witness ==
  /\ tpc = "done"
  /\ text = <<"a", "*", "*", "b", "*", "*", "a">>
  /\ result = <<PlainRun(<<"a">>, FALSE, FALSE), PlainRun(<<"b">>, TRUE, FALSE),
                PlainRun(<<"a">>, FALSE, FALSE)>>

\* C13 as stated: when the scan built no run, the tokenizer returns exactly
\* one run, with empty text and default attributes.
C13_NoRunsGivesEmptyRun ==
  tpc = "done" /\ runs = <<>> => result = <<PlainRun(<<>>, FALSE, FALSE)>>

----------------------------------------------------------------------------
(* Claims about mmToTwip *)

\* C14: for every length, negative and zero included, mmToTwip returns an
\* integer nearest to the length times 56.7 (no integer is nearer), and the
\* 210 mm of an A4 width give 11907.
C14_RoundsToNearest ==
  upc = "done" =>
    /\ \A n \in {twip - 1, twip + 1} :
         (IF 1000 * twip >= 567 * mm THEN 1000 * twip - 567 * mm
                                     ELSE 567 * mm - 1000 * twip)
         <= (IF 1000 * n >= 567 * mm THEN 1000 * n - 567 * mm
                                    ELSE 567 * mm - 1000 * n)
    /\ mm = 21000 => twip = 11907

\* C14 witness: mmToTwip has returned 11907 for 210 mm.
C14_Witness ==
  /\ upc = "done"
  /\ mm = 21000
  /\ twip = 11907

\* C15: for every length m, the twips returned by mmToTwip, taken back to
\* millimetres by dividing by 56.7, lie within one twip (1 / 56.7 mm) of m.
C15_RoundTripWithinOneStep ==
  upc = "done" => (1000 * twip - 567 * mm) \in (0 - 1000)..1000

\* C15 witness: mmToTwip has returned 1440 for 25.4 mm, and 1440 / 56.7 is
\* 25.397 mm, which is within 1 / 56.7 = 0.0176 mm of 25.4.
C15_Witness ==
  /\ upc = "done"
  /\ mm = 2540
  /\ twip = 1440
  /\ 567 * mm - 1000 * twip = 180

----------------------------------------------------------------------------
(* Claims about mergeStyles *)

\* the fields of StyleConfig
SheetPaths ==
  {<<"version">>,
   <<"page">>, <<"page", "size">>, <<"page", "size", "width">>,
   <<"page", "size", "height">>,
   <<"page", "margins">>, <<"page", "margins", "top">>,
   <<"page", "margins", "right">>, <<"page", "margins", "bottom">>,
   <<"page", "margins", "left">>,
   <<"page", "orientation">>,
   <<"font">>, <<"font", "eastAsia">>, <<"font", "ascii">>,
   <<"font", "size">>, <<"font", "size", "heading">>,
   <<"font", "size", "body">>, <<"font", "size", "caption">>,
   <<"paragraph">>, <<"paragraph", "spacing">>,
   <<"paragraph", "spacing", "line">>, <<"paragraph", "spacing", "before">>,
   <<"paragraph", "spacing", "after">>,
   <<"paragraph", "indent">>, <<"paragraph", "indent", "firstLine">>,
   <<"headingStyles">>, <<"listStyles">>, <<"styles">>}

\* C3 as stated: once the generator is constructed, every field of its style
\* sheet is defined, whatever the override.
C3_EveryFieldDefined ==
  spc = "built" =>
    \A path \in SheetPaths : GetPath(styleConfig, path).t # "undefined"

\* C4: a generator constructed with no override, or with the empty override,
\* holds exactly the default style sheet.
C4_EmptyOverrideGivesDefault ==
  spc = "built" /\ (overrides = Undefined \/ overrides = Obj(EmptyProps))
    => styleConfig = defaultConfig

\* C4 witness: a generator has been constructed with the empty override.
C4_Witness ==
  /\ spc = "built"
  /\ overrides = Obj(EmptyProps)
  /\ GetPath(styleConfig, <<"font", "ascii">>) = Str("Calibri")

\* the scalar fields that lie directly in a group of the style sheet
ScalarFields ==
  {<<"page", "orientation">>, <<"font", "eastAsia">>, <<"font", "ascii">>}

\* the override { g: { k: v } } for a scalar v
IsSingleScalar(ov, g, k) ==
  /\ ov.t = "object"
  /\ DOMAIN ov.f = {g}
  /\ ov.f[g].t = "object"
  /\ DOMAIN ov.f[g].f = {k}
  /\ ov.f[g].f[k].t \in {"string", "number", "boolean"}

\* the default sheet with field g.k set to v and nothing else changed
DefaultWith(g, k, v) ==
  Obj([defaultConfig.f EXCEPT ![g] = Obj([@.f EXCEPT ![k] = v])])

\* C5: a generator constructed with an override that holds one scalar in one
\* group holds the default style sheet with that one field set to the scalar.
C5_SingleScalarChangesOneField ==
  spc = "built" =>
    \A p \in ScalarFields :
      IsSingleScalar(overrides, p[1], p[2]) =>
        styleConfig = DefaultWith(p[1], p[2], overrides.f[p[1]].f[p[2]])

\* C5 witness: a generator has been constructed with { font: { eastAsia } }
\* and keeps the default Latin font.
C5_Witness ==
  /\ spc = "built"
  /\ IsSingleScalar(overrides, "font", "eastAsia")
  /\ GetPath(styleConfig, <<"font", "eastAsia">>) = Str("KaiTi")
  /\ GetPath(styleConfig, <<"font", "ascii">>) = Str("Calibri")

\* the override has property k
Supplies(ov, k) == ov.t = "object" /\ k \in DOMAIN ov.f

\* C17: once the generator is constructed, headingStyles (and listStyles) of
\* its style sheet is exactly the list of the override when the override holds
\* a list there, the empty list included, and exactly the default list when
\* the override does not have the property.
C17_ListsReplacedWholesale ==
  spc = "built" =>
    \A k \in {"headingStyles", "listStyles"} :
      /\ Get(overrides, k).t = "array" => Get(styleConfig, k) = Get(overrides, k)
      /\ ~Supplies(overrides, k) => Get(styleConfig, k) = Get(defaultConfig, k)

\* C17 witness: a generator has been constructed with headingStyles the empty
\* list and without listStyles: it holds no heading style and the default
\* list styles.
C17_Witness ==
  /\ spc = "built"
  /\ Supplies(overrides, "headingStyles")
  /\ ~Supplies(overrides, "listStyles")
  /\ Get(overrides, "headingStyles") = Arr(<<>>)
  /\ Get(styleConfig, "headingStyles") = Arr(<<>>)
  /\ Get(styleConfig, "listStyles") = Get(defaultConfig, "listStyles")

\* the override without the keys that StyleConfig does not have
WithoutUnknown(ov) ==
  IF ov.t = "object"
  THEN Obj([k \in DOMAIN ov.f \cap KnownKeys |-> ov.f[k]])
  ELSE ov

\* C18 as stated: the style sheet of a generator constructed with an override
\* is the sheet resolved from that override without its unknown top-level
\* keys.
C18_UnknownKeysIgnored ==
  spc = "built" => styleConfig = mergeStyles(WithoutUnknown(overrides))

\* C18, amended: the style sheet of a generator constructed with an override
\* agrees, in every field of StyleConfig, with the sheet resolved from that
\* override without its unknown top-level keys; the unknown keys are carried
\* into the resolved object with the values the override gives them.
C18_KnownFieldsAgree ==
  spc = "built" =>
    /\ \A k \in KnownKeys :
         Get(styleConfig, k) = Get(mergeStyles(WithoutUnknown(overrides)), k)
    /\ \A k \in DOMAIN Spread(overrides) \ KnownKeys :
         Get(styleConfig, k) = Get(overrides, k)

\* C18 witness: a generator has been constructed with an override that holds
\* an East Asian font and an unknown key: its sheet holds that font, the
\* default Latin font, and the unknown key.
C18_Witness ==
  /\ spc = "built"
  /\ DOMAIN Spread(overrides) = {"font", "theme"}
  /\ GetPath(styleConfig, <<"font", "eastAsia">>) = Str("KaiTi")
  /\ GetPath(styleConfig, <<"font", "ascii">>) = Str("Calibri")
  /\ Get(styleConfig, "theme") = Str("dark")

----------------------------------------------------------------------------
(* Claims about the generator's style sheet in use *)

\* C16 as stated: when createDocumentFromParsed has run on a style sheet that
\* lacks a field, it has failed with a configuration error.
C16_IncompleteSheetRejected ==
  (document # <<>> /\ \E path \in SheetPaths :
                        GetPath(styleConfig, path).t = "undefined")
    => document.status = "ConfigurationError"

\* C19 as stated: once the generator is constructed, no step changes its
\* style sheet.
C19_SheetImmutable ==
  [][spc = "built" => styleConfig' = styleConfig]_vars

----------------------------------------------------------------------------
(* Claims about generateFromMarkdown *)

\* the document that createDocumentFromParsed returns for the arguments of
\* call r when nothing else runs
DocAlone(r) ==
  createDocumentFromParsed(parseMarkdownContent(requests[r].markdown),
                           requests[r].options, mergeStyles(overrides))

\* C20: whatever the interleaving of the calls at their awaits, the document
\* that a call has built is, from then on, the document built from that
\* call's own arguments when it runs alone.
C20_RequestsDoNotInterfere ==
  \A r \in Requests :
    requests[r].at \in {"packing", "writing", "returned"}
      => requests[r].doc = DocAlone(r)

\* C20 witness: call 1 waits for its file to be written, call 2 has been
\* parsed and assembled in the meantime, from another text, and waits for
\* its buffer; each holds the document of its own text.
C20_Witness ==
  /\ requests[1].at = "writing"
  /\ requests[2].at = "packing"
  /\ requests[1].markdown = MarkdownA
  /\ requests[2].markdown = MarkdownB
  /\ Len(requests[1].doc.children) = 3
  /\ requests[1].doc.children[2].text = <<"a">>
  /\ Len(requests[2].doc.children) = 3
  /\ requests[2].doc.children[3].children[1].text = <<"e">>

----------------------------------------------------------------------------
(* Claims about the assembled document *)

\* a render unit made by createHeading
IsHeadingUnit(u) == DOMAIN u = {"text", "style", "spacing"}

HeadingStyleIds ==
  {Str("Heading" \o ToString(n)) : n \in 1..6}

DefinedStyleIds ==
  {document.styles[j].id : j \in 1..Len(document.styles)}

\* the style ids that the assembler gives to units of blocks of level 1..6
ReferencedStyleIds ==
  {Str("Title"), Str("Normal"), Str("ListParagraph"), Str("CodeBlock")}
  \cup HeadingStyleIds

\* C28 as stated: every style id that a unit of an assembled document
\* refers to (Title, Normal, Heading1..Heading6, ListParagraph, CodeBlock) is
\* the id of a style that createStyles generated for the same document.
C28_ReferencedStylesDefined ==
  document # <<>> /\ document.status = "document"
    => \A k \in 1..Len(document.children) :
         document.children[k].style \in ReferencedStyleIds
           => document.children[k].style \in DefinedStyleIds

----------------------------------------------------------------------------
(* Claims about the document of one call of generateFromMarkdown.  After    *)
(* Built the parser's variable elements still holds the blocks of the call. *)

\* the call has assembled its document
DocBuilt == requests[1].at \in {"packing", "writing", "returned"}

TheDoc == requests[1].doc

\* the title unit is emitted: options.title passes the test  if (options.title)
TitleUnits == IF Truthy(Get(requests[1].options, "title")) THEN 1 ELSE 0

\* the number of units of block e
UnitsOfBlock(e) ==
  IF elements[e].type = "list" THEN Len(elements[e].content.items) ELSE 1

RECURSIVE UnitsBefore(_)
UnitsBefore(e) ==
  IF e = 1 THEN TitleUnits ELSE UnitsBefore(e - 1) + UnitsOfBlock(e - 1)

\* the k-th unit of block e
UnitOf(e, k) == TheDoc.children[UnitsBefore(e) + k]

\* C22: in the assembled document every list block has one unit per item, in
\* item order; the unit of item k starts with the run "k. " when the list is
\* numbered, counting from 1 in every list whatever numbers the Markdown
\* text wrote, and with the same bullet glyph run when it is a bullet list;
\* the runs of the item's text follow.
C22_ListPrefixes ==
  DocBuilt =>
    \A e \in 1..Len(elements) :
      elements[e].type = "list" =>
        \A k \in 1..Len(elements[e].content.items) :
          /\ UnitsBefore(e) + k <= Len(TheDoc.children)
          /\ UnitOf(e, k).style = Str("ListParagraph")
          /\ Head(UnitOf(e, k).children).text =
               IF elements[e].content.type = "number"
               THEN DigitsOf(k) \o <<".", " ">>
               ELSE <<"·", " ">>
          /\ Tail(UnitOf(e, k).children)
               = parseInlineFormatting(elements[e].content.items[k])

\* C22 witness: two numbered lists, each written with the number 7, parted
\* by a blank line; each has the single unit "1. f".
C22_Witness ==
  /\ DocBuilt
  /\ lines = <<L_seven, L_empty, L_seven>>
  /\ Len(TheDoc.children) = 2
  /\ ConcatText(TheDoc.children[1].children) = <<"1", ".", " ", "f">>
  /\ ConcatText(TheDoc.children[2].children) = <<"1", ".", " ", "f">>

\* a render unit made for options.title
IsTitleUnit(u) == "style" \in DOMAIN u /\ u.style = Str("Title")

\* C23 as stated: when options.title is supplied, the empty string included,
\* the first unit of the document is the title unit and the units of the
\* blocks follow; when it is not supplied there is no title unit.
C23_TitleFirstWheneverPresent ==
  DocBuilt =>
    IF "title" \in DOMAIN requests[1].options.f
    THEN /\ Len(TheDoc.children) >= 1
         /\ IsTitleUnit(TheDoc.children[1])
         /\ \A k \in 2..Len(TheDoc.children) : ~IsTitleUnit(TheDoc.children[k])
    ELSE \A k \in 1..Len(TheDoc.children) : ~IsTitleUnit(TheDoc.children[k])

\* unit u is the unit that block e makes at position k
IsUnitOfBlock(u, e, k) ==
  CASE elements[e].type = "heading" ->
         /\ IsHeadingUnit(u)
         /\ u.text = elements[e].content.text
    [] elements[e].type = "paragraph" ->
         /\ u.style = Str("Normal")
         /\ u.children = parseInlineFormatting(elements[e].content)
    [] elements[e].type = "list" ->
         /\ u.style = Str("ListParagraph")
         /\ Tail(u.children) = parseInlineFormatting(elements[e].content.items[k])
    [] elements[e].type = "code" ->
         /\ u.style = Str("CodeBlock")
         /\ Len(u.children) = 1
         /\ u.children[1].text = elements[e].content

RECURSIVE SumUnits(_)
SumUnits(e) == IF e = 0 THEN 0 ELSE SumUnits(e - 1) + UnitsOfBlock(e)

\* C26: the assembled document has one unit for the title when options.title
\* passes the test, then, block after block in the order of the blocks, one
\* unit for a heading, a paragraph or a code block and one unit for each item
\* of a list; nothing else.
C26_UnitsFollowBlocks ==
  DocBuilt =>
    /\ Len(TheDoc.children) = TitleUnits + SumUnits(Len(elements))
    /\ TitleUnits = 1 => IsTitleUnit(TheDoc.children[1])
    /\ \A e \in 1..Len(elements) :
         \A k \in 1..UnitsOfBlock(e) : IsUnitOfBlock(UnitOf(e, k), e, k)

\* C26 witness: a title, then a heading, a paragraph and a list of one item,
\* four units in that order.
C26_Witness ==
  /\ DocBuilt
  /\ lines = <<L_heading, L_text, L_dash>>
  /\ requests[1].options = Obj(Props1("title", Str("Report")))
  /\ Len(TheDoc.children) = 4
  /\ IsTitleUnit(TheDoc.children[1])
  /\ IsHeadingUnit(TheDoc.children[2])
  /\ TheDoc.children[3].style = Str("Normal")
  /\ TheDoc.children[4].style = Str("ListParagraph")

----------------------------------------------------------------------------
(* Further claims about parseMarkdownContent *)

\* the lines recorded for block b, as they stand in the input
SrcLines(b) == [k \in 1..Len(srcs[b]) |-> lines[srcs[b][k]]]

\* block b is a code block whose lines lie between two fence lines
IsClosedCodeBlock(b) ==
  /\ elements[b].type = "code"
  /\ srcs[b] # <<>>
  /\ srcs[b][Len(srcs[b])] < Len(lines)
  /\ IsFenceLine(lines[srcs[b][Len(srcs[b])] + 1])

\* C24 as stated: the text of a code block whose fence is closed is exactly
\* the lines between the two fence lines joined by newlines, white space and
\* blank lines kept, and none of those lines is in another block.
C24_FenceTextVerbatim ==
  pc = "done" =>
    \A b \in 1..Len(elements) :
      IsClosedCodeBlock(b) =>
        /\ elements[b].content = JoinLines(SrcLines(b))
        /\ \A c \in 1..Len(elements) :
             c # b => \A k \in 1..Len(srcs[b]) :
                        Occurrences(srcs[c], srcs[b][k]) = 0

\* C27 as stated: at no point of the scan are the paragraph buffer and the
\* open list both non-empty.
C27_OneAccumulatorAtATime ==
  ~(currentParagraph # <<>> /\ currentList # NoList)

----------------------------------------------------------------------------
(* Further claims about parseInlineFormatting *)

\* the scan stands on a backtick
AtCodeSpan == tpc = "scan" /\ ti < Len(text) /\ text[ti + 1] = BT

\* the length of the delimiter that opens the span: three backticks or one
OpenLen ==
  IF ti + 3 <= Len(text) /\ text[ti + 2] = BT /\ text[ti + 3] = BT
  THEN 3 ELSE 1

\* the positions (1-based) after the opening delimiter at which the same
\* delimiter stands again
ClosePositions ==
  {k \in (ti + OpenLen + 1)..(Len(text) - OpenLen + 1) :
     \A d \in 0..(OpenLen - 1) : text[k + d] = BT}

\* the position of the closing delimiter, or one past the end of the text
SpanEnd ==
  IF ClosePositions = {} THEN Len(text) + 1
  ELSE CHOOSE k \in ClosePositions : \A m \in ClosePositions : k <= m

\* C25: a step taken on a backtick appends exactly one run, a code run that
\* is neither bold nor italic and holds the characters up to the closing
\* delimiter or the end of the text, asterisks included; it leaves the bold
\* and italic toggles and the pending plain text as they were, and the scan
\* goes on after the closing delimiter.
C25_CodeSpanLeavesToggles ==
  [][AtCodeSpan =>
       /\ isBold' = isBold
       /\ isItalic' = isItalic
       /\ currentText' = currentText
       /\ Len(runs') = Len(runs) + 1
       /\ SubSeq(runs', 1, Len(runs)) = runs
       /\ runs'[Len(runs')].font = "Consolas"
       /\ runs'[Len(runs')].bold = FALSE
       /\ runs'[Len(runs')].italics = FALSE
       /\ runs'[Len(runs')].text = SubSeq(text, ti + OpenLen + 1, SpanEnd - 1)
       /\ ti' = SpanEnd - 1 + OpenLen]_vars

\* C25 witness: bold is on, the code span holding one asterisk has been
\* emitted as a code run, and bold is still on and italic still off.
C25_Witness ==
  /\ text = <<"*", "*", BT, "*", BT>>
  /\ tpc = "scan"
  /\ ti = 5
  /\ isBold
  /\ ~isItalic
  /\ runs = <<CodeRun(<<"*">>, TRUE)>>

\* C30: on every text the tokenizer always has a next step until it has
\* returned, every step but the return moves the index forward, a jump past
\* a code span included, and the index never passes the end of the text by
\* more than three: so the tokenizer returns, whatever markers the text
\* holds, and no step reads a character that does not exist.
C30_TokenizerTerminates ==
  /\ [](tpc = "scan" => ENABLED InlineNext)
  /\ [](tpc \in {"scan", "done"} => ti <= Len(text) + 3)
  /\ [][tpc' = "done" \/ ti' > ti]_vars

\* C30 witness: the tokenizer has returned on a text with an unclosed bold
\* marker, an unclosed italic marker and an unclosed triple-backtick span at
\* its end; the index stands three past the end.
C30_Witness ==
  /\ tpc = "done"
  /\ text = <<"*", "*", "a", "*", BT, BT, BT>>
  /\ ti = 10
  /\ isBold
  /\ isItalic

----------------------------------------------------------------------------
(* Claims about generateFile *)

IsHeadingBlock(e) == e.type = "heading"

\* the heading that a section is to give
SectionHeading(section) ==
  Element("heading", [level |-> Min(section.level, 6), text |-> section.title])

\* C29 as stated: when the Markdown built by generateFile has been parsed,
\* the heading blocks are, in order, one per section, with the section's
\* title and the level min(level, 6): no section has lost its heading to
\* the content of an earlier one.
C29_SectionsIsolated ==
  (running = 1 /\ pc = "done") =>
    SelectSeq(elements, IsHeadingBlock)
      = [k \in 1..Len(requests[1].sections) |->
           SectionHeading(requests[1].sections[k])]

====
